---- MODULE Spec2Model ----
(***************************************************************************)
(* TalkVault: the text-analysis pipeline (talkvault_nlp: PIIRedactor,      *)
(* MeetingSummarizer, ActionExtractor) and the two lazy model loaders of   *)
(* the backend (services/summarizer_service.py, utils/summarize.py).       *)
(*                                                                         *)
(* Texts are TLA+ strings; Python's str and re operations are modelled     *)
(* character by character.  A regular expression is a tree of records and  *)
(* Match is a backtracking matcher with the priority order of Python's re  *)
(* (greedy repetition first, alternatives left to right), always ignoring  *)
(* case: talkvault_nlp passes re.IGNORECASE everywhere, and the patterns   *)
(* of backend/app/summarizer.py, used without the flag, are made of        *)
(* digits, punctuation, \w, \s and \S, or carry the inline flag (?i).      *)
(***************************************************************************)
EXTENDS Integers, Sequences, FiniteSets, Bags, TLC

VARIABLES
    text,       \* the transcript handed to the pipeline operation
    nlp,        \* self.nlp of the component: the linguistic backend in use
    calls,      \* the operation calls made so far: <<[arg, ret], ...>>
    stats,      \* the last result of get_redaction_stats and the call it was asked about
    today,      \* the day of the month of the wall clock (dateparser reads it)
    svc,        \* summarizer_service: the module globals; upload: the db.meetings collection
    thr,        \* summarizer_service: the requests in flight, a bag of positions and locals;
                \* upload: the position and locals of the upload handler
    loader,     \* summarizer_service: the loader thread's position
    lazy,       \* utils/summarize: the global model cache and the load count
    lthr        \* utils/summarize: each thread's position in _get_whisper or _get_summarizer

vars == <<text, nlp, calls, stats, today, svc, thr, loader, lazy, lthr>>

NoValue == "None"

----------------------------------------------------------------------------
(* Characters and str methods.                                             *)

LowerLetters == "abcdefghijklmnopqrstuvwxyz"
UpperLetters == "ABCDEFGHIJKLMNOPQRSTUVWXYZ"
DigitChars == "0123456789"

Ch(s, i) == SubSeq(s, i, i)

\* s[i-1:j], a Python slice: positions outside the string are cut off
Slice(s, i, j) ==
    LET a == IF i < 1 THEN 1 ELSE i
        b == IF j > Len(s) THEN Len(s) ELSE j
    IN IF b < a THEN "" ELSE SubSeq(s, a, b)

CharsOf(s) == { Ch(s, i) : i \in 1..Len(s) }

Lower == CharsOf(LowerLetters)
Upper == CharsOf(UpperLetters)
Letter == Lower \cup Upper
Digit == CharsOf(DigitChars)
AlNum == Letter \cup Digit
WordChar == AlNum \cup {"_"}
Space == {" ", "\t", "\n", "\r"}

LowerOf == [c \in Upper |-> Ch(LowerLetters, CHOOSE i \in 1..Len(UpperLetters) : Ch(UpperLetters, i) = c)]
UpperOf == [c \in Lower |-> Ch(UpperLetters, CHOOSE i \in 1..Len(LowerLetters) : Ch(LowerLetters, i) = c)]

ToLower(c) == IF c \in Upper THEN LowerOf[c] ELSE c
ToUpper(c) == IF c \in Lower THEN UpperOf[c] ELSE c

\* The recursions below halve the string or step from one match to the next,
\* never from one character to the next.
Min(S) == CHOOSE x \in S : \A y \in S : x <= y
Max(S) == CHOOSE x \in S : \A y \in S : y <= x

RECURSIVE lower(_)
lower(s) ==
    IF Len(s) = 0 THEN ""
    ELSE IF Len(s) = 1 THEN ToLower(s)
    ELSE lower(SubSeq(s, 1, Len(s) \div 2)) \o lower(SubSeq(s, Len(s) \div 2 + 1, Len(s)))

RECURSIVE upper(_)
upper(s) ==
    IF Len(s) = 0 THEN ""
    ELSE IF Len(s) = 1 THEN ToUpper(s)
    ELSE upper(SubSeq(s, 1, Len(s) \div 2)) \o upper(SubSeq(s, Len(s) \div 2 + 1, Len(s)))

NonSpaceAt(s) == { i \in 1..Len(s) : Ch(s, i) \notin Space }

strip(s) == IF NonSpaceAt(s) = {} THEN "" ELSE SubSeq(s, Min(NonSpaceAt(s)), Max(NonSpaceAt(s)))

\* `sub in s`
Contains(s, sub) == \E i \in 1..(Len(s) - Len(sub) + 1) : SubSeq(s, i, i + Len(sub) - 1) = sub

endswith(s, suffix) == Len(s) >= Len(suffix) /\ SubSeq(s, Len(s) - Len(suffix) + 1, Len(s)) = suffix

\* sep.join(parts)
RECURSIVE join(_, _)
join(sep, parts) ==
    IF parts = <<>> THEN ""
    ELSE IF Len(parts) = 1 THEN parts[1]
    ELSE parts[1] \o sep \o join(sep, Tail(parts))

\* the pieces of s between the characters of the set seps, as <<start, end>>
\* (end exclusive), from position i on; with runs, a run of separators counts
\* as one separator, else each does
RECURSIVE Pieces(_, _, _, _)
Pieces(s, seps, runs, i) ==
    LET sepAt == { j \in i..Len(s) : Ch(s, j) \in seps }
    IN IF sepAt = {} THEN <<<<i, Len(s) + 1>>>>
       ELSE LET b == Min(sepAt)
                after == { j \in b..Len(s) : Ch(s, j) \notin seps }
                e == IF ~runs THEN b + 1 ELSE IF after = {} THEN Len(s) + 1 ELSE Min(after)
            IN <<<<i, b>>>> \o Pieces(s, seps, runs, e)

PieceTexts(s, seps, runs) ==
    LET ps == Pieces(s, seps, runs, 1) IN [n \in 1..Len(ps) |-> Slice(s, ps[n][1], ps[n][2] - 1)]

\* s.split(): the maximal runs of non-whitespace characters, in order
split(s) == SelectSeq(PieceTexts(s, Space, TRUE), LAMBDA w : w # "")

----------------------------------------------------------------------------
(* Python's re, with flags=re.IGNORECASE (the patterns that are used       *)
(* without the flag are made of digits, punctuation and \w, \s, \S only,   *)
(* or carry the inline flag (?i): the flag changes nothing for them).      *)

\* Under IGNORECASE a character matches a class, or a literal, when some case
\* variant of it does.  The patterns are therefore kept in lower case and
\* matched against lower(s): lower keeps every position.
Cls(S) == [t |-> "cls", s |-> { ToLower(c) : c \in S }]
NCls(S) == [t |-> "ncls", s |-> { ToLower(c) : c \in S }]
Lit(str) == [t |-> "lit", s |-> lower(str)]
Cat(rs) == [t |-> "cat", rs |-> rs]
Alt(rs) == [t |-> "alt", rs |-> rs]
Rep(r, lo, hi) == [t |-> "rep", r |-> r, lo |-> lo, hi |-> hi]
AtLeast(r, lo) == [t |-> "star", r |-> r, lo |-> lo]
Opt(r) == Rep(r, 0, 1)
\* (?:c sep*?){lo,hi} for disjoint character classes c and sep, lo >= 1
Items(c, sep, lo, hi) == [t |-> "items", r |-> c, sep |-> sep, lo |-> lo, hi |-> hi]
WordB == [t |-> "wordb"]
Group(r) == Cat(<<[t |-> "open"], r, [t |-> "close"]>>)

NoMatch == <<>>

\* a character class node c matches s[i] (s in lower case)
ClsAt(c, s, i) == IF c.t = "cls" THEN Ch(s, i) \in c.s ELSE Ch(s, i) \notin c.s

\* the length of the longest run of characters of class c that starts at s[i]
RunLen(c, s, i) ==
    LET stop == { j \in i..Len(s) : ~ClsAt(c, s, j) }
    IN IF stop = {} THEN Len(s) + 1 - i ELSE Min(stop) - i

IsWordAt(s, i) == i >= 1 /\ i <= Len(s) /\ Ch(s, i) \in WordChar

\* \b holds in front of s[i] (i = Len(s) + 1: at the end)
IsWordBoundary(s, i) == IsWordAt(s, i - 1) # IsWordAt(s, i)

Pred(n) == IF n > 0 THEN n - 1 ELSE 0

\* Match(st, s, i): the first way, in backtracking order, to match the regexes
\* of the stack st one after the other from position i of s:
\* <<end, group 1 start, group 1 end>> (positions of the next character), or
\* NoMatch; s is in lower case.  A greedy repetition of a character class
\* takes the longest run that lets the rest match.
RECURSIVE Match(_, _, _)
Match(st, s, i) ==
    IF st = <<>> THEN <<i, 0, 0>>
    ELSE LET h == Head(st)
             k == Tail(st)
         IN CASE h.t \in {"cls", "ncls"} ->
                    IF i <= Len(s) /\ ClsAt(h, s, i) THEN Match(k, s, i + 1) ELSE NoMatch
              [] h.t = "lit" ->
                    IF Slice(s, i, i + Len(h.s) - 1) = h.s
                    THEN Match(k, s, i + Len(h.s))
                    ELSE NoMatch
              [] h.t = "cat" -> Match(h.rs \o k, s, i)
              [] h.t = "alt" ->
                    IF h.rs = <<>> THEN NoMatch
                    ELSE LET r == Match(<<Head(h.rs)>> \o k, s, i)
                         IN IF r # NoMatch THEN r ELSE Match(<<Alt(Tail(h.rs))>> \o k, s, i)
              [] h.t \in {"rep", "star"} /\ h.r.t \in {"cls", "ncls"} ->
                    LET run == RunLen(h.r, s, i)
                        top == IF h.t = "rep" /\ h.hi < run THEN h.hi ELSE run
                        good == { n \in h.lo..top : Match(k, s, i + n) # NoMatch }
                    IN IF good = {} THEN NoMatch ELSE Match(k, s, i + Max(good))
              [] h.t = "rep" /\ h.r.t \notin {"cls", "ncls"} ->
                    IF h.hi = 0 THEN Match(k, s, i)
                    ELSE LET r == Match(<<h.r, Rep(h.r, Pred(h.lo), h.hi - 1)>> \o k, s, i)
                         IN IF r # NoMatch THEN r
                            ELSE IF h.lo = 0 THEN Match(k, s, i) ELSE NoMatch
              [] h.t = "items" ->
                    LET run == RunLen([t |-> "cls", s |-> h.r.s \cup h.sep.s], s, i)
                        items(e) == Cardinality({ q \in i..(e - 1) : ClsAt(h.r, s, q) })
                        ends == { e \in (i + 1)..(i + run) :
                                    /\ items(e) \in h.lo..h.hi
                                    /\ Match(k, s, e) # NoMatch }
                        inside == { e \in ends : e <= Len(s) /\ ClsAt(h.sep, s, e) }
                    IN IF i > Len(s) \/ ~ClsAt(h.r, s, i) \/ ends = {} THEN NoMatch
                       ELSE Match(k, s, IF inside # {} THEN Min(inside) ELSE Max(ends))
              [] h.t = "wordb" -> IF IsWordBoundary(s, i) THEN Match(k, s, i) ELSE NoMatch
              [] h.t = "open" ->
                    LET r == Match(k, s, i) IN IF r = NoMatch THEN NoMatch ELSE <<r[1], i, r[3]>>
              [] h.t = "close" ->
                    LET r == Match(k, s, i) IN IF r = NoMatch THEN NoMatch ELSE <<r[1], r[2], i>>

\* the positions from i on where re matches ls (none of the patterns matches "")
MatchStarts(re, ls, i) == { j \in i..Len(ls) : Match(<<re>>, ls, j) # NoMatch }

\* re.sub(re, repl, s): every non-overlapping match, leftmost first, replaced
RECURSIVE SubFrom(_, _, _, _, _)
SubFrom(re, repl, s, ls, i) ==
    LET starts == MatchStarts(re, ls, i)
    IN IF starts = {} THEN Slice(s, i, Len(s))
       ELSE LET b == Min(starts)
            IN Slice(s, i, b - 1) \o repl \o SubFrom(re, repl, s, ls, Match(<<re>>, ls, b)[1])

sub(re, repl, s) == SubFrom(re, repl, s, lower(s), 1)

\* len(re.findall(re, s))
RECURSIVE CountFrom(_, _, _)
CountFrom(re, ls, i) ==
    LET starts == MatchStarts(re, ls, i)
    IN IF starts = {} THEN 0
       ELSE 1 + CountFrom(re, ls, Match(<<re>>, ls, Min(starts))[1])

findall_len(re, s) == CountFrom(re, lower(s), 1)

\* re.finditer(re, s): the spans <<m.start(), m.end()>> of the non-overlapping
\* matches, leftmost first (offsets count from 0, the end is exclusive)
RECURSIVE SpansFrom(_, _, _)
SpansFrom(re, ls, i) ==
    LET starts == MatchStarts(re, ls, i)
    IN IF starts = {} THEN <<>>
       ELSE LET b == Min(starts)
                e == Match(<<re>>, ls, b)[1]
            IN <<<<b - 1, e - 1>>>> \o SpansFrom(re, ls, e)

finditer(re, s) == SpansFrom(re, lower(s), 1)

\* re.search(re, s): the leftmost match as <<start, end, g1 start, g1 end>>, or NoMatch
search(re, s) ==
    LET ls == lower(s)
        starts == MatchStarts(re, ls, 1)
    IN IF starts = {} THEN NoMatch ELSE <<Min(starts)>> \o Match(<<re>>, ls, Min(starts))

\* match.group(1)
group1(s, m) == Slice(s, m[3], m[4] - 1)

----------------------------------------------------------------------------
(* The linguistic backend (spaCy's en_core_web_sm), an external model.     *)
(* self.nlp is None (loaded = FALSE) when the model is not installed.  A   *)
(* loaded backend is                                                       *)
(* a fixed function of the text: it either raises on every call, or it     *)
(* segments the text (doc.sents) and reports entities (doc.ents).  seg     *)
(* says where its sentences end ("punct": after each run of . ! ? and the  *)
(* whitespace behind it; "whole": nowhere), tok > 0 that it reports the    *)
(* tok-th word of the text as one entity with the given label.             *)

MaxEntTok == 1

EntityLabels == {"PERSON", "DATE"}

NoModel == [loaded |-> FALSE, raises |-> FALSE, seg |-> "punct", tok |-> 0, label |-> "PERSON"]

Backends ==
    {NoModel}
    \cup {[loaded |-> TRUE, raises |-> TRUE, seg |-> "punct", tok |-> 0, label |-> "PERSON"]}
    \cup [loaded : {TRUE}, raises : {FALSE}, seg : {"punct", "whole"},
          tok : 0..MaxEntTok, label : EntityLabels]

\* the spans <<start, end>> (end exclusive) of the maximal runs of word characters
WordStarts(s) == { i \in 1..Len(s) : IsWordAt(s, i) /\ ~IsWordAt(s, i - 1) }

WordSpans(s) ==
    LET W == WordStarts(s)
        nth(n) == CHOOSE i \in W : Cardinality({ j \in W : j < i }) = n - 1
        end(i) == LET stop == { j \in i..Len(s) : ~IsWordAt(s, j) }
                  IN IF stop = {} THEN Len(s) + 1 ELSE Min(stop)
    IN [n \in 1..Cardinality(W) |-> <<nth(n), end(nth(n))>>]

\* doc.ents of backend b on text s: a sequence of [start_char, end_char, label_]
ents(b, s) ==
    LET w == WordSpans(s)
    IN IF b.tok >= 1 /\ b.tok <= Len(w)
       THEN <<[start_char |-> w[b.tok][1] - 1, end_char |-> w[b.tok][2] - 1, label_ |-> b.label]>>
       ELSE <<>>

----------------------------------------------------------------------------
(* nlp/src/talkvault_nlp/pii_redactor.py                                   *)

email_re ==
    Cat(<<WordB,
          AtLeast(Cls(AlNum \cup {".", "_", "%", "+", "-"}), 1),
          Lit("@"),
          AtLeast(Cls(AlNum \cup {".", "-"}), 1),
          Lit("."),
          AtLeast(Cls(Letter \cup {"|"}), 2),
          WordB>>)

\* the phone pattern with its optional separators [-.]? left out
phone_re_unseparated ==
    Cat(<<WordB,
          Opt(Cat(<<Opt(Lit("+")), Lit("1")>>)),
          Opt(Lit("(")),
          Rep(Cls(Digit), 3, 3),
          Opt(Lit(")")),
          Rep(Cls(Digit), 3, 3),
          Rep(Cls(Digit), 4, 4),
          WordB>>)

\* the three capture groups of the source are unused: the replacement is constant
phone_re ==
    Cat(<<WordB,
          Opt(Cat(<<Opt(Lit("+")), Lit("1"), Opt(Cls({"-", "."}))>>)),
          Opt(Lit("(")),
          Rep(Cls(Digit), 3, 3),
          Opt(Lit(")")),
          Opt(Cls({"-", "."})),
          Rep(Cls(Digit), 3, 3),
          Opt(Cls({"-", "."})),
          Rep(Cls(Digit), 4, 4),
          WordB>>)

ssn_re ==
    Cat(<<WordB, Rep(Cls(Digit), 3, 3), Opt(Lit("-")), Rep(Cls(Digit), 2, 2),
          Opt(Lit("-")), Rep(Cls(Digit), 4, 4), WordB>>)

credit_card_re ==
    Cat(<<WordB,
          Rep(Cat(<<Rep(Cls(Digit), 4, 4), Opt(Cls({"-"} \cup Space))>>), 3, 3),
          Rep(Cls(Digit), 4, 4),
          WordB>>)

ip_address_re ==
    Cat(<<WordB,
          Rep(Cat(<<Rep(Cls(Digit), 1, 3), Lit(".")>>), 3, 3),
          Rep(Cls(Digit), 1, 3),
          WordB>>)

\* the url pattern running on to the next whitespace: https?://\S+
url_re_to_whitespace ==
    Cat(<<Lit("http"), Opt(Lit("s")), Lit("://"), AtLeast(NCls(Space), 1)>>)

\* (the backquote of the source's class cannot be written in a TLA+ string; no text here holds one)
url_re ==
    Cat(<<Lit("http"), Opt(Lit("s")), Lit("://"),
          AtLeast(NCls(Space \cup {"<", ">", "\"", "{", "}", "|", "\\", "^", "[", "]"}), 1)>>)

zipcode_re ==
    Cat(<<WordB, Rep(Cls(Digit), 5, 5),
          Opt(Cat(<<Lit("-"), Rep(Cls(Digit), 4, 4)>>)),
          WordB>>)

\* self.pii_patterns, in the dict's insertion order
pii_patterns ==
    << [type |-> "email", re |-> email_re],
       [type |-> "phone", re |-> phone_re],
       [type |-> "ssn", re |-> ssn_re],
       [type |-> "credit_card", re |-> credit_card_re],
       [type |-> "ip_address", re |-> ip_address_re],
       [type |-> "url", re |-> url_re],
       [type |-> "zipcode", re |-> zipcode_re] >>

sensitive_entities == <<"PERSON", "ORG", "GPE", "LOC">>

InSeq(x, seq) == \E i \in 1..Len(seq) : seq[i] = x

placeholder(kind) == "[" \o kind \o "_REDACTED]"

\* the loop of lines 38-39 over the first n patterns
RECURSIVE PatternPhase(_, _)
PatternPhase(s, n) ==
    IF n = 0 THEN s
    ELSE sub(pii_patterns[n].re, placeholder(upper(pii_patterns[n].type)), PatternPhase(s, n - 1))

\* the entities as doc.ents lists them, front to back
SortedAsIs(es) == es

\* sorted(doc.ents, key=start_char, reverse=True)
RECURSIVE SortedDesc(_)
SortedDesc(es) ==
    IF es = <<>> THEN <<>>
    ELSE LET m == CHOOSE i \in 1..Len(es) :
                      /\ \A j \in 1..Len(es) : es[j].start_char <= es[i].start_char
                      /\ \A j \in 1..(i - 1) : es[j].start_char < es[i].start_char
         IN <<es[m]>> \o SortedDesc(SubSeq(es, 1, m - 1) \o SubSeq(es, m + 1, Len(es)))

\* the loop of lines 57-61 (offsets are 0-based, end exclusive)
RECURSIVE ReplaceEntities(_, _)
ReplaceEntities(s, es) ==
    IF es = <<>> THEN s
    ELSE LET ent == Head(es)
             r == IF InSeq(ent.label_, sensitive_entities)
                  THEN Slice(s, 1, ent.start_char) \o placeholder(ent.label_)
                           \o Slice(s, ent.end_char + 1, Len(s))
                  ELSE s
         IN ReplaceEntities(r, Tail(es))

_redact_named_entities(b, s) ==
    IF b.raises THEN s
    ELSE ReplaceEntities(s, SortedDesc(ents(b, s)))

\* redact_pii returning text instead of redacted_text when self.nlp is None
redact_pii_returns_input(b, s) ==
    IF s = "" \/ strip(s) = "" THEN s
    ELSE LET redacted_text == PatternPhase(s, Len(pii_patterns))
         IN IF b.loaded THEN _redact_named_entities(b, redacted_text) ELSE s

redact_pii(b, s) ==
    IF s = "" \/ strip(s) = "" THEN s
    ELSE LET redacted_text == PatternPhase(s, Len(pii_patterns))
         IN IF b.loaded THEN _redact_named_entities(b, redacted_text) ELSE redacted_text

\* the keys of redaction_count in the order lines 74-85 assign them, each with
\* the placeholder it counts
StatEntries ==
    [n \in 1..Len(pii_patterns) |->
        [key |-> pii_patterns[n].type, re |-> Lit(placeholder(upper(pii_patterns[n].type)))]]
    \o [n \in 1..Len(sensitive_entities) |->
        [key |-> lower(sensitive_entities[n]), re |-> Lit(placeholder(sensitive_entities[n]))]]

\* the total taken as len(redaction_count)
SumOver_counting_keys(f, keys) == Cardinality(keys)

RECURSIVE SumOver(_, _)
SumOver(f, keys) ==
    IF keys = {} THEN 0
    ELSE LET k == CHOOSE x \in keys : TRUE IN f[k] + SumOver(f, keys \ {k})

get_redaction_stats(original_text, redacted_text) ==
    LET count == [n \in 1..Len(StatEntries) |-> findall_len(StatEntries[n].re, redacted_text)]
        set == { n \in 1..Len(StatEntries) : count[n] > 0 }
        \* a later assignment to the same key replaces the earlier one
        redaction_count ==
            [k \in { StatEntries[n].key : n \in set } |->
                count[Max({ n \in set : StatEntries[n].key = k })]]
    IN [total_redactions |-> SumOver(redaction_count, DOMAIN redaction_count),
        redaction_types |-> redaction_count,
        original_length |-> Len(original_text),
        redacted_length |-> Len(redacted_text)]

----------------------------------------------------------------------------
(* Inputs.  A text is a concatenation of a few fragments, or one of the    *)
(* documented examples.                                                    *)

MaxFrags == 2

TextsOf(frags, n) ==
    { join("", q) : q \in UNION { [1..m -> frags] : m \in 0..n } }

ExampleContact == "Contact me at alice@example.com or 555-123-4567."

RedactFragments == {"123-45-6789", "http://x", " ", "12345", "[SSN_REDACTED]"}

\* an e-mail address inside a link
ExampleLink == "See http://x.org/alice@example.com now."

RedactTexts == TextsOf(RedactFragments, MaxFrags) \cup {ExampleContact, ExampleLink}

\* the redactor never reads doc.sents
RedactBackends == { b \in Backends : b.seg = "punct" }

NoStats == [call |-> 0]

Idle == [text |-> "", nlp |-> NoModel, calls |-> <<>>, stats |-> NoStats, today |-> 1,
         svc |-> NoValue, thr |-> NoValue, loader |-> NoValue, lazy |-> NoValue,
         lthr |-> NoValue]

----------------------------------------------------------------------------------------------------------------------------------------
(* The redactor's specification: redact_pii(text), then redact_pii of the  *)
(* result (a second pass), and get_redaction_stats on a finished call.     *)

InitRedact ==
    /\ text \in RedactTexts
    /\ nlp \in RedactBackends
    /\ calls = <<>>
    /\ stats = NoStats
    /\ today = Idle.today
    /\ svc = Idle.svc /\ thr = Idle.thr /\ loader = Idle.loader
    /\ lazy = Idle.lazy /\ lthr = Idle.lthr

RedactPii ==
    /\ calls = <<>>
    /\ calls' = <<[arg |-> text, ret |-> redact_pii(nlp, text)]>>
    /\ UNCHANGED <<text, nlp, stats, today, svc, thr, loader, lazy, lthr>>

RedactPiiAgain ==
    /\ Len(calls) = 1
    /\ calls' = Append(calls, [arg |-> calls[1].ret, ret |-> redact_pii(nlp, calls[1].ret)])
    /\ UNCHANGED <<text, nlp, stats, today, svc, thr, loader, lazy, lthr>>

GetRedactionStats ==
    /\ \E n \in 1..Len(calls) :
          /\ stats.call # n
          /\ stats' = [call |-> n, val |-> get_redaction_stats(calls[n].arg, calls[n].ret)]
    /\ UNCHANGED <<text, nlp, calls, today, svc, thr, loader, lazy, lthr>>

NextRedact == RedactPii \/ RedactPiiAgain \/ GetRedactionStats

SpecRedact == InitRedact /\ [][NextRedact]_vars

\* C1: redact_pii is idempotent: a second pass over the result of the first
\* changes nothing.  Stated for the component without a linguistic model, where
\* redact_pii is the pattern phase alone: no detector matches in redacted text.
C1_Idempotent ==
    (~nlp.loaded /\ Len(calls) = 2) => calls[2].ret = calls[1].ret

\* the entity phase of redact_pii(nlp, s) replaces nothing
EntityPhaseIdle(b, s) ==
    \/ ~b.loaded
    \/ b.raises
    \/ LET es == ents(b, PatternPhase(s, Len(pii_patterns)))
       IN \A n \in 1..Len(es) : ~InSeq(es[n].label_, sensitive_entities)

ExampleContactResult(ret) ==
    /\ Contains(ret, "[EMAIL_REDACTED]")
    /\ Contains(ret, "[PHONE_REDACTED]")
    /\ ~Contains(ret, "@")

ExampleContactStats(val) ==
    /\ val.redaction_types = [k \in {"email", "phone"} |-> 1]
    /\ val.total_redactions = 2

\* C5 as stated: for the input "Contact me at alice@example.com or 555-123-4567."
\* the output holds [EMAIL_REDACTED] and [PHONE_REDACTED] and no '@', and the
\* statistics of (input, output) are {email: 1, phone: 1}, 2 in total.
C5_ExampleContact_Original ==
    (text = ExampleContact /\ Len(calls) >= 1) =>
        /\ ExampleContactResult(calls[1].ret)
        /\ stats.call = 1 => ExampleContactStats(stats.val)

\* C5 as amended: the same, whenever the entity phase replaces nothing (no
\* model loaded, the model raises, or it reports no PERSON, ORG, GPE or LOC).
C5_ExampleContact ==
    (text = ExampleContact /\ Len(calls) >= 1 /\ EntityPhaseIdle(nlp, text)) =>
        /\ ExampleContactResult(calls[1].ret)
        /\ stats.call = 1 => ExampleContactStats(stats.val)

C5_Witness ==
    /\ text = ExampleContact
    /\ EntityPhaseIdle(nlp, text)
    /\ stats.call = 1
    /\ calls[1].ret = "Contact me at [EMAIL_REDACTED] or [PHONE_REDACTED]."

----------------------------------------------------------------------------
(* nlp/src/talkvault_nlp/summarizer.py                                     *)

Terminators == {".", "!", "?"}

\* [sent.text for sent in doc.sents] of backend b: the text cut after the first
\* whitespace character behind a terminator ("punct"), or left whole
sents(b, s) ==
    IF b.seg = "whole" THEN <<s>>
    ELSE LET cut == { i \in 2..Len(s) : Ch(s, i) \in Space /\ Ch(s, i - 1) \in Terminators }
             nth(n) == CHOOSE i \in cut : Cardinality({ j \in cut : j < i }) = n - 1
             from(n) == IF n = 1 THEN 1 ELSE nth(n - 1) + 1
             to(n) == IF n = Cardinality(cut) + 1 THEN Len(s) ELSE nth(n)
         IN SelectSeq([n \in 1..(Cardinality(cut) + 1) |-> Slice(s, from(n), to(n))],
                      LAMBDA p : strip(p) # "")

\* [s.strip() for s in pieces if len(s.strip()) > longer]
StrippedLongerThan(pieces, longer) ==
    SelectSeq([n \in 1..Len(pieces) |-> strip(pieces[n])], LAMBDA p : Len(p) > longer)

MinSummaryLen == 20

\* _simple_summarize with line 71 unguarded: the last sentence always appended
_simple_summarize_with_last(s, max_sentences) ==
    LET sentences == StrippedLongerThan(PieceTexts(s, Terminators, TRUE), MinSummaryLen)
        n == Len(sentences)
        middle_sentences == SubSeq(sentences, n \div 3 + 1, (2 * n) \div 3)
        selected ==
            <<sentences[1]>>
            \o (IF max_sentences > 2
                THEN SubSeq(middle_sentences, 1,
                            IF max_sentences - 2 < Len(middle_sentences)
                            THEN max_sentences - 2 ELSE Len(middle_sentences))
                ELSE <<>>)
            \o <<sentences[n]>>
    IN IF n <= max_sentences THEN join(". ", sentences) \o "."
       ELSE join(". ", selected) \o "."

_simple_summarize(s, max_sentences) ==
    LET sentences == StrippedLongerThan(PieceTexts(s, Terminators, TRUE), MinSummaryLen)
        n == Len(sentences)
        middle_sentences == SubSeq(sentences, n \div 3 + 1, (2 * n) \div 3)
        selected ==
            <<sentences[1]>>
            \o (IF max_sentences > 2
                THEN SubSeq(middle_sentences, 1,
                            IF max_sentences - 2 < Len(middle_sentences)
                            THEN max_sentences - 2 ELSE Len(middle_sentences))
                ELSE <<>>)
            \o (IF max_sentences > 1 THEN <<sentences[n]>> ELSE <<>>)
    IN IF n <= max_sentences THEN join(". ", sentences) \o "."
       ELSE join(". ", selected) \o "."

\* lines 38-39 left out: no boost for the early sentences
Score10_unboosted(sentence, i, n) == 10 * Len(split(sentence))

\* ten times the score of sentences[i] (i counted from 0) among n sentences:
\* the word count, times 1.2 in the first 30%
Score10(sentence, i, n) ==
    IF 10 * i < 3 * n THEN 12 * Len(split(sentence)) ELSE 10 * Len(split(sentence))

\* list.sort(key=score, reverse=True): stable, so equal scores keep their order
RECURSIVE SortByScore(_)
SortByScore(scored) ==
    IF scored = <<>> THEN <<>>
    ELSE LET m == CHOOSE i \in 1..Len(scored) :
                      /\ \A j \in 1..Len(scored) : scored[j][2] <= scored[i][2]
                      /\ \A j \in 1..(i - 1) : scored[j][2] < scored[i][2]
         IN <<scored[m]>> \o SortByScore(SubSeq(scored, 1, m - 1) \o SubSeq(scored, m + 1, Len(scored)))

\* seq[:n] for n >= 0
Take(seq, n) == SubSeq(seq, 1, IF n < Len(seq) THEN n ELSE Len(seq))

\* summarize without the guard of lines 18-19
summarize_unguarded(b, s, max_sentences) ==
    IF ~b.loaded THEN _simple_summarize(s, max_sentences)
    ELSE IF b.raises THEN _simple_summarize(s, max_sentences)
    ELSE LET sentences == StrippedLongerThan(sents(b, s), MinSummaryLen)
             n == Len(sentences)
             scored_sentences == [i \in 1..n |-> <<sentences[i], Score10(sentences[i], i - 1, n)>>]
             sorted == SortByScore(scored_sentences)
             top_sentences == [i \in 1..Len(Take(sorted, max_sentences)) |-> sorted[i][1]]
         IN IF n <= max_sentences THEN join(" ", sentences)
            ELSE join(" ", top_sentences)

\* summarize with line 32 testing len(sentences) < max_sentences
summarize_strict(b, s, max_sentences) ==
    IF s = "" \/ strip(s) = "" THEN "No content to summarize"
    ELSE IF ~b.loaded THEN _simple_summarize(s, max_sentences)
    ELSE IF b.raises THEN _simple_summarize(s, max_sentences)
    ELSE LET sentences == StrippedLongerThan(sents(b, s), MinSummaryLen)
             n == Len(sentences)
             scored_sentences == [i \in 1..n |-> <<sentences[i], Score10(sentences[i], i - 1, n)>>]
             sorted == SortByScore(scored_sentences)
             top_sentences == [i \in 1..Len(Take(sorted, max_sentences)) |-> sorted[i][1]]
         IN IF n < max_sentences THEN join(" ", sentences)
            ELSE join(" ", top_sentences)

summarize(b, s, max_sentences) ==
    IF s = "" \/ strip(s) = "" THEN "No content to summarize"
    ELSE IF ~b.loaded THEN _simple_summarize(s, max_sentences)
    ELSE IF b.raises THEN _simple_summarize(s, max_sentences)
    ELSE LET sentences == StrippedLongerThan(sents(b, s), MinSummaryLen)
             n == Len(sentences)
             scored_sentences == [i \in 1..n |-> <<sentences[i], Score10(sentences[i], i - 1, n)>>]
             sorted == SortByScore(scored_sentences)
             top_sentences == [i \in 1..Len(Take(sorted, max_sentences)) |-> sorted[i][1]]
         IN IF n <= max_sentences THEN join(" ", sentences)
            ELSE join(" ", top_sentences)

----------------------------------------------------------------------------
(* The summarizer's specification: one call summarize(text, max_sentences). *)

MaxSents == 4
MaxSummary == 3

SummFragments ==
    {"Alice reviews the budget report now.",
     "We ship version 2.5 of the planner in May!",
     "Noted."}

\* four sentences of 3, 6, 7 and 3 words: the boost puts the second first
ExampleBoost ==
    "Considering everything carefully. Alice reviews the budget report now. We ship the new planner in May. Considering nothing carefully."

SummTexts ==
    { join(" ", q) : q \in UNION { [1..m -> SummFragments] : m \in 0..MaxSents } }
    \cup {ExampleBoost}

\* the summarizer and the extractor never read doc.ents
SegBackends == { b \in Backends : b.tok = 0 /\ b.label = "PERSON" }

InitSumm ==
    /\ text \in SummTexts
    /\ nlp \in SegBackends
    /\ calls = <<>>
    /\ stats = NoStats
    /\ today = Idle.today
    /\ svc = Idle.svc /\ thr = Idle.thr /\ loader = Idle.loader
    /\ lazy = Idle.lazy /\ lthr = Idle.lthr

Summarize ==
    /\ calls = <<>>
    /\ \E max_sentences \in 0..MaxSummary :
          calls' = <<[arg |-> text, max_sentences |-> max_sentences,
                      ret |-> summarize(nlp, text, max_sentences)]>>
    /\ UNCHANGED <<text, nlp, stats, today, svc, thr, loader, lazy, lthr>>

NextSumm == Summarize

SpecSumm == InitSumm /\ [][NextSumm]_vars

\* the segmentation form in use is the model's
ModelInUse(b) == b.loaded /\ ~b.raises

\* the qualifying sentences (trimmed length > 20) of the form in use
Qualifying(b, s) ==
    IF ModelInUse(b) THEN StrippedLongerThan(sents(b, s), MinSummaryLen)
    ELSE StrippedLongerThan(PieceTexts(s, Terminators, TRUE), MinSummaryLen)

\* C2 as stated: with at most max_sentences qualifying sentences, summarize
\* returns exactly those sentences joined by single spaces, in order, under
\* the model-backed and under the fallback segmentation.
C2_ShortText_Original ==
    (Len(calls) = 1 /\ strip(text) # ""
        /\ Len(Qualifying(nlp, text)) <= calls[1].max_sentences)
    => calls[1].ret = join(" ", Qualifying(nlp, text))

\* C2 as amended: for a non-blank text with at most max_sentences qualifying
\* sentences, summarize returns them in order, joined by single spaces under
\* the model-backed segmentation, and joined by ". " and ended with "." under
\* the fallback (no model, or the model raises).
C2_ShortText ==
    (Len(calls) = 1 /\ strip(text) # ""
        /\ Len(Qualifying(nlp, text)) <= calls[1].max_sentences)
    => calls[1].ret = IF ModelInUse(nlp) THEN join(" ", Qualifying(nlp, text))
                      ELSE join(". ", Qualifying(nlp, text)) \o "."

C2_Witness ==
    /\ Len(calls) = 1
    /\ ModelInUse(nlp)
    /\ Len(Qualifying(nlp, text)) = 2
    /\ calls[1].max_sentences = 2
    /\ calls[1].ret = "Alice reviews the budget report now. We ship version 2.5 of the planner in May!"

\* the middle third of the sentences: sentences[n // 3 : 2 * n // 3]
MiddleThird(sentences) ==
    [i \in 1..((2 * Len(sentences)) \div 3 - Len(sentences) \div 3) |->
        sentences[Len(sentences) \div 3 + i]]

\* the first sentence, the first max(k - 2, 0) of the middle third, the last
FirstMiddleLast(sentences, k) ==
    <<sentences[1]>> \o Take(MiddleThird(sentences), Max({k - 2, 0}))
                     \o <<sentences[Len(sentences)]>>

\* the fallback summarizer has run on more qualifying sentences than asked for
FallbackCut ==
    /\ Len(calls) = 1
    /\ ~ModelInUse(nlp)
    /\ Len(Qualifying(nlp, text)) > calls[1].max_sentences

\* C20 as stated: in the fallback with more qualifying sentences than
\* max_sentences the summary is, for every max_sentences, the first sentence,
\* the first max(max_sentences - 2, 0) sentences of the middle third and the
\* last sentence, joined with ". " and ended with a period.
C20_FirstMiddleLast_Original ==
    FallbackCut =>
        calls[1].ret =
            join(". ", FirstMiddleLast(Qualifying(nlp, text), calls[1].max_sentences)) \o "."

\* C20 as amended: that is the summary for max_sentences >= 2; for
\* max_sentences <= 1 the summary is the first sentence alone, ended with a
\* period.
C20_FirstMiddleLast ==
    FallbackCut =>
        calls[1].ret =
            IF calls[1].max_sentences >= 2
            THEN join(". ", FirstMiddleLast(Qualifying(nlp, text), calls[1].max_sentences))
                 \o "."
            ELSE Qualifying(nlp, text)[1] \o "."

\* four qualifying sentences cut to three: the second is the middle third
C20_Witness ==
    /\ FallbackCut
    /\ Len(Qualifying(nlp, text)) = 4
    /\ calls[1].max_sentences = 3
    /\ calls[1].ret = "Alice reviews the budget report now. 5 of the planner in May. Alice reviews the budget report now."

\* ten times the score the claim gives the i-th (from 1) of the sentences
ClaimedScore10(sentences, i) ==
    IF 10 * (i - 1) < 3 * Len(sentences)
    THEN 12 * Len(split(sentences[i])) ELSE 10 * Len(split(sentences[i]))

\* how many sentences come before the i-th in descending score order, ties in
\* input order
Rank(sentences, i) ==
    Cardinality({ j \in 1..Len(sentences) :
                    \/ ClaimedScore10(sentences, j) > ClaimedScore10(sentences, i)
                    \/ (ClaimedScore10(sentences, j) = ClaimedScore10(sentences, i) /\ j < i) })

\* the k sentences of highest score, in that order
TopRanked(sentences, k) ==
    [r \in 1..k |-> sentences[CHOOSE i \in 1..Len(sentences) : Rank(sentences, i) = r - 1]]

\* the model-backed summarizer has run on more qualifying sentences than asked for
ModelCut ==
    /\ Len(calls) = 1
    /\ ModelInUse(nlp)
    /\ Len(Qualifying(nlp, text)) > calls[1].max_sentences

\* C21: the model-backed summarizer, given n qualifying sentences and
\* 0 <= max_sentences < n, returns the max_sentences sentences of highest
\* score (word count, times 1.2 for an index below 0.3 * n), in descending
\* score order with ties in input order, joined by single spaces.
C21_TopScored ==
    ModelCut =>
        calls[1].ret = join(" ", TopRanked(Qualifying(nlp, text), calls[1].max_sentences))

\* the boosted second sentence (6 words) is chosen before the third (7 words)
C21_Witness ==
    /\ ModelCut
    /\ text = ExampleBoost
    /\ Len(Qualifying(nlp, text)) = 4
    /\ calls[1].max_sentences = 2
    /\ calls[1].ret = "Alice reviews the budget report now. We ship the new planner in May."

\* the sentences a summary is made of, counted with the segmentation that
\* produced it; the fixed answer to a blank text holds none
SummarySentences(b, summary) ==
    IF summary = "No content to summarize" THEN 0 ELSE Len(Qualifying(b, summary))

\* C26: for every text and every max_sentences >= 0 the summary holds at most
\* max_sentences sentences, on the model-backed and on the fallback path.
C26_AtMostMaxSentences ==
    \A c \in 1..Len(calls) :
        SummarySentences(nlp, calls[c].ret) <= calls[c].max_sentences

----------------------------------------------------------------------------
(* nlp/src/talkvault_nlp/action_extractor.py                               *)

action_keywords ==
    <<"will", "shall", "should", "need to", "must", "have to", "going to",
      "action item", "todo", "task", "follow up", "deliverable", "deadline",
      "assign", "responsible", "owner", "due", "complete", "finish">>

MinActionLen == 10

\* self.nlp(text) raises, and _split_sentences does not catch it
SplitRaises(b) == b.loaded /\ b.raises

_split_sentences(b, s) ==
    IF b.loaded
    THEN [n \in 1..Len(sents(b, s)) |-> strip(sents(b, s)[n])]
    ELSE StrippedLongerThan(PieceTexts(s, Terminators, TRUE), MinActionLen)

_contains_action_keywords(sentence) ==
    LET sentence_lower == lower(sentence)
    IN \E n \in 1..Len(action_keywords) : Contains(sentence_lower, action_keywords[n])

\* [A-Z][a-z]+(?:\s+[A-Z][a-z]+)?
CapitalizedName ==
    Cat(<<Cls(Upper), AtLeast(Cls(Lower), 1),
          Opt(Cat(<<AtLeast(Cls(Space), 1), Cls(Upper), AtLeast(Cls(Lower), 1)>>))>>)

assignee_patterns ==
    << Cat(<<Alt(<<Lit("assigned to"), Lit("assign to"), Lit("responsible")>>),
             AtLeast(Cls(Space), 1), Group(CapitalizedName)>>),
       Cat(<<Group(CapitalizedName), AtLeast(Cls(Space), 1),
             Alt(<<Lit("will"), Lit("shall"), Lit("should")>>)>>),
       Cat(<<Lit("@"),
             Group(Cat(<<AtLeast(Cls(Letter), 1),
                         Opt(Cat(<<AtLeast(Cls(Space), 1), AtLeast(Cls(Letter), 1)>>))>>))>>) >>

\* the first pattern that matches decides: match.group(1).strip(), else None
RECURSIVE FirstGroup(_, _, _)
FirstGroup(patterns, n, sentence) ==
    IF n > Len(patterns) THEN NoValue
    ELSE LET m == search(patterns[n], sentence)
         IN IF m # NoMatch THEN strip(group1(sentence, m))
            ELSE FirstGroup(patterns, n + 1, sentence)

_extract_assignee(sentence) == FirstGroup(assignee_patterns, 1, sentence)

DatePhrase == Rep(NCls({".", "\n", ","}), 5, 30)

date_patterns ==
    << Cat(<<Lit("due"), AtLeast(Cls(Space), 1), Opt(Alt(<<Lit("by"), Lit("on")>>)),
             AtLeast(Cls(Space), 0), Group(DatePhrase)>>),
       Cat(<<Lit("deadline"), Opt(Cls({":", "-"})), AtLeast(Cls(Space), 0), Group(DatePhrase)>>),
       Cat(<<Lit("by"), AtLeast(Cls(Space), 1),
             Group(Cat(<<Cls(Upper), AtLeast(Cls(Lower), 1), AtLeast(Cls(Space), 1),
                         Rep(Cls(Digit), 1, 2),
                         Opt(Alt(<<Lit("st"), Lit("nd"), Lit("rd"), Lit("th")>>))>>))>>),
       Cat(<<Lit("on"), AtLeast(Cls(Space), 1),
             Group(Cat(<<Rep(Cls(Digit), 1, 2), Lit("/"), Rep(Cls(Digit), 1, 2),
                         Opt(Cat(<<Lit("/"), Rep(Cls(Digit), 2, 4)>>))>>))>>),
       Group(Cat(<<Lit("next"), AtLeast(Cls(Space), 1),
                   Alt(<<Lit("week"), Lit("month"), Lit("friday"), Lit("monday"),
                         Lit("tuesday"), Lit("wednesday"), Lit("thursday"),
                         Lit("saturday"), Lit("sunday")>>)>>)),
       Group(Alt(<<Lit("tomorrow"), Lit("today"),
                   Cat(<<Lit("this"), AtLeast(Cls(Space), 1), Lit("week")>>),
                   Cat(<<Lit("next"), AtLeast(Cls(Space), 1), Lit("week")>>)>>)) >>

\* str(n) for 0 <= n < 100
Str(n) == IF n < 10 THEN Ch(DigitChars, n + 1)
          ELSE Ch(DigitChars, (n \div 10) + 1) \o Ch(DigitChars, (n % 10) + 1)

\* dateparser.parse(date_str) at a clock that shows day `now` of the month: the
\* day it resolves the phrase to, or 0 for None.  The relative terms are
\* resolved against the clock; every other phrase of the texts here is taken
\* as one the library cannot resolve.
dateparser_parse(date_str, now) ==
    CASE lower(date_str) = "today" -> now
      [] lower(date_str) = "tomorrow" -> now + 1
      [] OTHER -> 0

\* parsed_date.strftime('%Y-%m-%d'), within the month the clock shows
strftime(day) == "2026-11-" \o (IF day < 10 THEN "0" ELSE "") \o Str(day)

\* _extract_due_date with line 125 returning None
_extract_due_date_or_none(sentence, now) ==
    LET date_str == FirstGroup(date_patterns, 1, sentence)
    IN IF date_str = NoValue THEN NoValue
       ELSE IF dateparser_parse(date_str, now) # 0
            THEN strftime(dateparser_parse(date_str, now))
            ELSE NoValue

_extract_due_date(sentence, now) ==
    LET date_str == FirstGroup(date_patterns, 1, sentence)
    IN IF date_str = NoValue THEN NoValue
       ELSE IF dateparser_parse(date_str, now) # 0
            THEN strftime(dateparser_parse(date_str, now))
            ELSE date_str

high_priority_words == <<"urgent", "asap", "immediately", "critical", "important">>
low_priority_words == <<"when possible", "eventually", "low priority">>

_determine_priority(sentence) ==
    LET sentence_lower == lower(sentence)
    IN IF \E n \in 1..Len(high_priority_words) : Contains(sentence_lower, high_priority_words[n])
       THEN "high"
       ELSE IF \E n \in 1..Len(low_priority_words) : Contains(sentence_lower, low_priority_words[n])
            THEN "low"
            ELSE "medium"

\* _clean_description without lines 149-150
_clean_description_as_written(description) ==
    LET collapsed == join(" ", split(description))
    IN IF collapsed # "" /\ ~(\E t \in Terminators : endswith(collapsed, t))
       THEN collapsed \o "."
       ELSE collapsed

_clean_description(description) ==
    LET collapsed == join(" ", split(description))
        capitalized == IF collapsed # ""
                       THEN ToUpper(Ch(collapsed, 1)) \o Slice(collapsed, 2, Len(collapsed))
                       ELSE collapsed
    IN IF capitalized # "" /\ ~(\E t \in Terminators : endswith(capitalized, t))
       THEN capitalized \o "."
       ELSE capitalized

\* the item numbered by enumerate's index itself
_extract_action_from_sentence_zero_based(sentence, index, now) ==
    [id |-> index,
     description |-> _clean_description(strip(sentence)),
     assigned_to |-> _extract_assignee(sentence),
     due_date |-> _extract_due_date(sentence, now),
     priority |-> _determine_priority(sentence),
     status |-> "pending",
     extracted_from |-> "Sentence " \o Str(index)]

_extract_action_from_sentence(sentence, index, now) ==
    [id |-> index + 1,
     description |-> _clean_description(strip(sentence)),
     assigned_to |-> _extract_assignee(sentence),
     due_date |-> _extract_due_date(sentence, now),
     priority |-> _determine_priority(sentence),
     status |-> "pending",
     extracted_from |-> "Sentence " \o Str(index + 1)]

WordSet(desc) == { split(lower(desc))[n] : n \in 1..Len(split(lower(desc))) }

\* similarity >= threshold with threshold = 0.7, in tenths
Threshold10 == 7

\* the overlap measured against len(words1) + len(words2)
_are_similar_by_sum(desc1, desc2) ==
    LET words1 == WordSet(desc1)
        words2 == WordSet(desc2)
    IN IF words1 = {} \/ words2 = {} THEN FALSE
       ELSE 10 * Cardinality(words1 \cap words2)
                >= Threshold10 * (Cardinality(words1) + Cardinality(words2))

_are_similar(desc1, desc2) ==
    LET words1 == WordSet(desc1)
        words2 == WordSet(desc2)
    IN IF words1 = {} \/ words2 = {} THEN FALSE
       ELSE 10 * Cardinality(words1 \cap words2) >= Threshold10 * Cardinality(words1 \cup words2)

\* the loop of lines 165-174 over actions[n..]
RECURSIVE Dedup(_, _, _)
Dedup(actions, n, unique_actions) ==
    IF n > Len(actions) THEN unique_actions
    ELSE LET is_duplicate ==
                 \E m \in 1..Len(unique_actions) :
                     _are_similar(actions[n].description, unique_actions[m].description)
         IN Dedup(actions, n + 1,
                  IF is_duplicate THEN unique_actions ELSE Append(unique_actions, actions[n]))

_deduplicate_actions(actions) ==
    IF Len(actions) <= 1 THEN actions ELSE Dedup(actions, 1, <<>>)

\* the loop of lines 43-47: the candidates, in sentence order
Candidates(sentences, now) ==
    LET hit == { i \in 1..Len(sentences) : _contains_action_keywords(sentences[i]) }
        nth(n) == CHOOSE i \in hit : Cardinality({ j \in hit : j < i }) = n - 1
    IN [n \in 1..Cardinality(hit) |->
            _extract_action_from_sentence(sentences[nth(n)], nth(n) - 1, now)]

\* the list extract_actions returns (when no exception leaves it)
extract_actions(b, s, now) ==
    IF s = "" \/ strip(s) = "" THEN <<>>
    ELSE _deduplicate_actions(Candidates(_split_sentences(b, s), now))

\* an exception leaves extract_actions
extract_actions_raises(b, s) == ~(s = "" \/ strip(s) = "") /\ SplitRaises(b)

----------------------------------------------------------------------------
(* The extractor's specification: extract_actions(text) is invoked, and    *)
(* invoked again on the same text, while the wall clock advances.          *)

MaxActSents == 2
MaxDay == 2

ExampleAlice == "Alice will send the report by Friday. This is urgent."

\* the third sentence repeats the first with one more word
ExampleRepeat ==
    "Bob must finish the slides tomorrow. Alice will send the report by Friday. Bob must finish all the slides tomorrow."

\* a due date the library cannot resolve to a calendar date
ExampleDue == "The slides are due by the end of sprint."

\* lowercase start, runs of whitespace, no terminator
ExampleMessy == "we  should\treview the budget"

\* a first sentence of seven characters that holds an action keyword
ExampleShort == "I will. Alice will send the report by Friday."

ActionFragments ==
    {"Alice will send the report by Friday.",
     "Bob must finish the slides tomorrow.",
     "Bob must finish all the slides tomorrow."}

ActionTexts ==
    { join(" ", q) : q \in UNION { [1..m -> ActionFragments] : m \in 0..MaxActSents } }
    \cup {ExampleAlice, ExampleRepeat, ExampleDue, ExampleMessy, ExampleShort}

InitActions ==
    /\ text \in ActionTexts
    /\ nlp \in SegBackends
    /\ calls = <<>>
    /\ stats = NoStats
    /\ today = 1
    /\ svc = Idle.svc /\ thr = Idle.thr /\ loader = Idle.loader
    /\ lazy = Idle.lazy /\ lthr = Idle.lthr

\* one invocation of extract_actions(text) at the present clock
Invocation ==
    [arg |-> text, at |-> today,
     raised |-> extract_actions_raises(nlp, text),
     ret |-> IF extract_actions_raises(nlp, text) THEN <<>> ELSE extract_actions(nlp, text, today)]

ExtractActions ==
    /\ calls = <<>>
    /\ calls' = <<Invocation>>
    /\ UNCHANGED <<text, nlp, stats, today, svc, thr, loader, lazy, lthr>>

ExtractActionsAgain ==
    /\ Len(calls) = 1
    /\ calls' = Append(calls, Invocation)
    /\ UNCHANGED <<text, nlp, stats, today, svc, thr, loader, lazy, lthr>>

Tick ==
    /\ today < MaxDay
    /\ today' = today + 1
    /\ UNCHANGED <<text, nlp, calls, stats, svc, thr, loader, lazy, lthr>>

NextActions == ExtractActions \/ ExtractActionsAgain \/ Tick

SpecActions == InitActions /\ [][NextActions]_vars

\* C3: any two distinct items of a returned list have descriptions whose
\* Jaccard similarity, over lowercased whitespace-split word sets, is < 0.7.
C3_PairwiseDistinct ==
    \A c \in 1..Len(calls) : \A i, j \in 1..Len(calls[c].ret) :
        i # j =>
            LET a == WordSet(calls[c].ret[i].description)
                b == WordSet(calls[c].ret[j].description)
            IN 10 * Cardinality(a \cap b) < 7 * Cardinality(a \cup b)

\* two items are returned, a third candidate was dropped as a near duplicate
C3_Witness ==
    /\ text = ExampleRepeat
    /\ Len(calls) >= 1
    /\ Len(calls[1].ret) = 2
    /\ calls[1].ret[1].id = 1
    /\ calls[1].ret[2].id = 2

\* C4: for "Alice will send the report by Friday. This is urgent." the list
\* holds exactly one ActionItem, assigned to Alice, with a due date (derived
\* from "Friday") and priority high.
C4_ExampleAlice ==
    (text = ExampleAlice /\ Len(calls) >= 1 /\ ~calls[1].raised) =>
        /\ Len(calls[1].ret) = 1
        /\ calls[1].ret[1].assigned_to = "Alice"
        /\ calls[1].ret[1].due_date # NoValue
        /\ calls[1].ret[1].priority = "high"

\* C6: two invocations on the same text with the same backend return the same
\* list, due dates included, whenever they happen.
C6_Deterministic ==
    Len(calls) = 2 =>
        /\ calls[1].raised = calls[2].raised
        /\ calls[1].ret = calls[2].ret

----------------------------------------------------------------------------
(* backend/app/services/summarizer_service.py                              *)
(*                                                                         *)
(* svc holds the module globals, loader is the thread running              *)
(* _load_models, thr is the bag of the requests in flight: the locals of   *)
(* the threads inside ensure_models_loading, wait_for_models,              *)
(* transcribe_audio_file or summarize_text (the code never identifies a    *)
(* thread, so requests with equal locals are interchangeable).             *)
(* svc.started counts the calls of thread.start(); svc.called records that *)
(* a request has entered the module.                                       *)

\* the most requests (threads) in flight at once
MaxThreads == 2

Entries ==
    {"ensure_models_loading", "wait_for_models", "transcribe_audio_file", "summarize_text"}

Model == "model"

Globals ==
    [lock |-> FALSE, event |-> FALSE, _models_loading |-> FALSE, _models_failed |-> FALSE,
     _transcriber |-> NoValue, _summarizer_model |-> NoValue,
     _summarizer_tokenizer |-> NoValue, started |-> 0, called |-> FALSE]

NoLoader == [pc |-> "none", raised |-> FALSE]

\* the locals of a request as it enters
NewRequest ==
    [pc |-> "lock", entry |-> "ensure_models_loading", during |-> FALSE, afterfail |-> FALSE,
     finished |-> FALSE, ret |-> FALSE, out |-> "none"]

Requests == BagToSet(thr)

InitService ==
    /\ svc = Globals
    /\ loader = NoLoader
    /\ thr = EmptyBag
    /\ text = Idle.text /\ nlp = Idle.nlp /\ calls = Idle.calls
    /\ stats = Idle.stats /\ today = Idle.today
    /\ lazy = Idle.lazy /\ lthr = Idle.lthr

\* the loader thread exists and has not reached the end of _load_models
LoadInProgress == loader.pc \notin {"none", "done"}

\* where a request goes once ensure_models_loading has returned
AfterEnsure(e) == IF e = "ensure_models_loading" THEN "returned" ELSE "wait"

\* request r goes on with the locals q
Becomes(r, q) == thr' = (thr (-) SetToBag({r})) (+) SetToBag({q})

Goto(r, pc) == Becomes(r, [r EXCEPT !.pc = pc])

\* a request enters one of the four public functions and runs line 91:
\* if _models_loaded_event.is_set(): return
Call(e) ==
    /\ BagCardinality(thr) < MaxThreads
    /\ thr' = thr (+) SetToBag({
                  [NewRequest EXCEPT !.pc = IF svc.event THEN AfterEnsure(e) ELSE "lock",
                                     !.entry = e,
                                     !.during = LoadInProgress /\ e # "ensure_models_loading",
                                     !.afterfail = loader.raised /\ e # "ensure_models_loading"]})
    /\ svc' = [svc EXCEPT !.called = TRUE]
    /\ UNCHANGED <<loader, text, nlp, calls, stats, today, lazy, lthr>>

\* line 94: with _models_lock
Acquire(r) ==
    /\ r.pc = "lock"
    /\ ~svc.lock
    /\ svc' = [svc EXCEPT !.lock = TRUE]
    /\ Goto(r, "check_loading")
    /\ UNCHANGED <<loader, text, nlp, calls, stats, today, lazy, lthr>>

\* line 95 without its first operand
CheckLoadingSkipped(r) ==
    /\ r.pc = "check_loading"
    /\ Goto(r, "check_event")
    /\ UNCHANGED <<svc, loader, text, nlp, calls, stats, today, lazy, lthr>>

\* line 95, first operand: if _models_loading ...: return (the lock is released)
CheckLoading(r) ==
    /\ r.pc = "check_loading"
    /\ IF svc._models_loading
       THEN /\ svc' = [svc EXCEPT !.lock = FALSE]
            /\ Goto(r, AfterEnsure(r.entry))
       ELSE /\ UNCHANGED svc
            /\ Goto(r, "check_event")
    /\ UNCHANGED <<loader, text, nlp, calls, stats, today, lazy, lthr>>

\* line 95, second operand: ... or _models_loaded_event.is_set(): return
CheckEvent(r) ==
    /\ r.pc = "check_event"
    /\ IF svc.event
       THEN /\ svc' = [svc EXCEPT !.lock = FALSE]
            /\ Goto(r, AfterEnsure(r.entry))
       ELSE /\ UNCHANGED svc
            /\ Goto(r, "set_loading")
    /\ UNCHANGED <<loader, text, nlp, calls, stats, today, lazy, lthr>>

\* line 97: _models_loading = True
SetLoading(r) ==
    /\ r.pc = "set_loading"
    /\ svc' = [svc EXCEPT !._models_loading = TRUE]
    /\ Goto(r, "start")
    /\ UNCHANGED <<loader, text, nlp, calls, stats, today, lazy, lthr>>

\* lines 99-100: Thread(target=_load_models).start()
StartThread(r) ==
    /\ r.pc = "start"
    /\ svc' = [svc EXCEPT !.started = @ + 1]
    /\ loader' = [pc |-> "whisper", raised |-> FALSE]
    /\ Goto(r, "release")
    /\ UNCHANGED <<text, nlp, calls, stats, today, lazy, lthr>>

\* line 101 and the end of the with block
Release(r) ==
    /\ r.pc = "release"
    /\ svc' = [svc EXCEPT !.lock = FALSE]
    /\ Goto(r, AfterEnsure(r.entry))
    /\ UNCHANGED <<loader, text, nlp, calls, stats, today, lazy, lthr>>

\* line 111: _models_loaded_event.wait(timeout) returns True once the event is set
Wait(r) ==
    /\ r.pc = "wait"
    /\ svc.event
    /\ Becomes(r, [r EXCEPT !.finished = TRUE, !.pc = "result"])
    /\ UNCHANGED <<svc, loader, text, nlp, calls, stats, today, lazy, lthr>>

\* line 111: the timeout elapses with the event not set
WaitTimeout(r) ==
    /\ r.pc = "wait"
    /\ ~svc.event
    /\ Becomes(r, [r EXCEPT !.finished = FALSE, !.pc = "result"])
    /\ UNCHANGED <<svc, loader, text, nlp, calls, stats, today, lazy, lthr>>

\* lines 112-118 returning the outcome of the wait alone
WaitResultOfWaitOnly(finished, failed) == finished

\* lines 112-118: the value wait_for_models returns
WaitResult(finished, failed) ==
    IF ~finished THEN FALSE
    ELSE IF failed THEN FALSE
    ELSE TRUE

\* lines 112-118 of a request thread
Result(r) ==
    /\ r.pc = "result"
    /\ Becomes(r, [r EXCEPT !.ret = WaitResult(r.finished, svc._models_failed),
                             !.pc = IF r.entry = "wait_for_models" THEN "returned" ELSE "use"])
    /\ UNCHANGED <<svc, loader, text, nlp, calls, stats, today, lazy, lthr>>

\* what transcribe_audio_file (lines 128-145) and summarize_text (lines
\* 153-177) do with ok: the RuntimeError they raise, or their result
Outcomes(e, ok) ==
    IF ~ok THEN {"unavailable"}
    ELSE IF e = "transcribe_audio_file" /\ svc._transcriber = NoValue THEN {"not_configured"}
    ELSE IF e = "summarize_text"
            /\ (svc._summarizer_model = NoValue \/ svc._summarizer_tokenizer = NoValue)
         THEN {"not_configured"}
    ELSE {"value", "failed"}

Use(r) ==
    /\ r.pc = "use"
    /\ \E o \in Outcomes(r.entry, r.ret) :
           Becomes(r, [r EXCEPT !.out = o, !.pc = "returned"])
    /\ UNCHANGED <<svc, loader, text, nlp, calls, stats, today, lazy, lthr>>

\* the request is over
Return(r) ==
    /\ r.pc = "returned"
    /\ thr' = thr (-) SetToBag({r})
    /\ UNCHANGED <<svc, loader, text, nlp, calls, stats, today, lazy, lthr>>

Raise == loader' = [pc |-> "except", raised |-> TRUE]

\* lines 42-57: _transcriber = WhisperModel(...) or None; the constructor may raise
LoadWhisper ==
    /\ loader.pc = "whisper"
    /\ \/ \E w \in {NoValue, Model} :
              /\ svc' = [svc EXCEPT !._transcriber = w]
              /\ loader' = [loader EXCEPT !.pc = "tokenizer"]
       \/ Raise /\ UNCHANGED svc
    /\ UNCHANGED <<thr, text, nlp, calls, stats, today, lazy, lthr>>

\* lines 61-66: the import and AutoTokenizer.from_pretrained may raise
LoadTokenizer ==
    /\ loader.pc = "tokenizer"
    /\ \/ /\ svc' = [svc EXCEPT !._summarizer_tokenizer = Model]
          /\ loader' = [loader EXCEPT !.pc = "summarizer"]
       \/ Raise /\ UNCHANGED svc
    /\ UNCHANGED <<thr, text, nlp, calls, stats, today, lazy, lthr>>

\* line 67: PegasusForConditionalGeneration.from_pretrained may raise
LoadSummarizer ==
    /\ loader.pc = "summarizer"
    /\ \/ /\ svc' = [svc EXCEPT !._summarizer_model = Model]
          /\ loader' = [loader EXCEPT !.pc = "mark_loaded"]
       \/ Raise /\ UNCHANGED svc
    /\ UNCHANGED <<thr, text, nlp, calls, stats, today, lazy, lthr>>

\* line 71: _models_failed = False
MarkLoaded ==
    /\ loader.pc = "mark_loaded"
    /\ svc' = [svc EXCEPT !._models_failed = FALSE]
    /\ loader' = [loader EXCEPT !.pc = "set_loaded"]
    /\ UNCHANGED <<thr, text, nlp, calls, stats, today, lazy, lthr>>

\* the try block without line 72
SetLoadedSkipped ==
    /\ loader.pc = "set_loaded"
    /\ loader' = [loader EXCEPT !.pc = "finally"]
    /\ UNCHANGED <<svc, thr, text, nlp, calls, stats, today, lazy, lthr>>

\* line 72: _models_loaded_event.set()
SetLoaded ==
    /\ loader.pc = "set_loaded"
    /\ svc' = [svc EXCEPT !.event = TRUE]
    /\ loader' = [loader EXCEPT !.pc = "finally"]
    /\ UNCHANGED <<thr, text, nlp, calls, stats, today, lazy, lthr>>

\* the except block without line 76
MarkFailedSkipped ==
    /\ loader.pc = "except"
    /\ loader' = [loader EXCEPT !.pc = "set_failed"]
    /\ UNCHANGED <<svc, thr, text, nlp, calls, stats, today, lazy, lthr>>

\* line 76: _models_failed = True
MarkFailed ==
    /\ loader.pc = "except"
    /\ svc' = [svc EXCEPT !._models_failed = TRUE]
    /\ loader' = [loader EXCEPT !.pc = "set_failed"]
    /\ UNCHANGED <<thr, text, nlp, calls, stats, today, lazy, lthr>>

\* the except block without line 78
SetFailedSkipped ==
    /\ loader.pc = "set_failed"
    /\ loader' = [loader EXCEPT !.pc = "finally"]
    /\ UNCHANGED <<svc, thr, text, nlp, calls, stats, today, lazy, lthr>>

\* line 78: _models_loaded_event.set()
SetFailed ==
    /\ loader.pc = "set_failed"
    /\ svc' = [svc EXCEPT !.event = TRUE]
    /\ loader' = [loader EXCEPT !.pc = "finally"]
    /\ UNCHANGED <<thr, text, nlp, calls, stats, today, lazy, lthr>>

\* line 80: _models_loading = False
Finally ==
    /\ loader.pc = "finally"
    /\ svc' = [svc EXCEPT !._models_loading = FALSE]
    /\ loader' = [loader EXCEPT !.pc = "done"]
    /\ UNCHANGED <<thr, text, nlp, calls, stats, today, lazy, lthr>>

NextService ==
    \/ \E e \in Entries : Call(e)
    \/ \E r \in Requests : Acquire(r)
    \/ \E r \in Requests : CheckLoading(r)
    \/ \E r \in Requests : CheckEvent(r)
    \/ \E r \in Requests : SetLoading(r)
    \/ \E r \in Requests : StartThread(r)
    \/ \E r \in Requests : Release(r)
    \/ \E r \in Requests : Wait(r)
    \/ \E r \in Requests : WaitTimeout(r)
    \/ \E r \in Requests : Result(r)
    \/ \E r \in Requests : Use(r)
    \/ \E r \in Requests : Return(r)
    \/ LoadWhisper
    \/ LoadTokenizer
    \/ LoadSummarizer
    \/ MarkLoaded
    \/ SetLoaded
    \/ MarkFailed
    \/ SetFailed
    \/ Finally

SpecService == InitService /\ [][NextService]_vars

\* C7: thread.start() on _load_models happens at most once, whatever the
\* interleaving of requests and however the load ends, and never before a
\* request has entered the module.
C7_LoaderStartedOnce ==
    /\ svc.started <= 1
    /\ svc.started >= 1 => svc.called
    /\ ~svc.called => loader.pc = "none"

\* the loader runs while another request holds the lock and tests the flag
C7_Witness ==
    /\ svc.started = 1
    /\ \E r \in Requests : r.pc = "check_loading"

\* a request that entered while the load was in progress has returned from
\* wait_for_models
Waited(r) ==
    /\ r.during
    /\ r.entry # "ensure_models_loading"
    /\ r.pc \in {"use", "returned"}

\* C8 as stated: every request that enters wait_for_models while the load is
\* in progress returns only after the load has completed or failed, and
\* all such requests get the same result.
C8_SingleOutcome_Original ==
    \A r \in Requests : Waited(r) =>
        /\ svc.event
        /\ \A u \in Requests : Waited(u) => u.ret = r.ret

\* C8 amended: such a request returns after the load has completed or failed,
\* or when its timeout has elapsed; after a timeout it gets False, otherwise
\* it gets True if the load succeeded and False if it failed, the same for
\* all such requests.
C8_SingleOutcome ==
    \A r \in Requests : Waited(r) =>
        /\ r.finished => svc.event /\ r.ret = ~svc._models_failed
        /\ ~r.finished => ~r.ret
        /\ \A u \in Requests :
               (Waited(u) /\ u.finished /\ r.finished) => u.ret = r.ret

\* two requests waited out the same failed load
C8_Witness ==
    /\ BagCardinality(thr) >= 2
    /\ \A r \in Requests : Waited(r) /\ r.finished /\ ~r.ret
    /\ loader.raised

\* C9: once _load_models has raised, wait_for_models returns False to every
\* later request, transcribe_audio_file and summarize_text report the models
\* unavailable, no further loader is started, and the failure stays recorded.
C9_FailurePermanent ==
    /\ loader.raised => svc.started = 1
    /\ (loader.raised /\ loader.pc = "done") => svc.event /\ svc._models_failed
    /\ \A r \in Requests : (r.afterfail /\ r.pc \in {"use", "returned"}) =>
           /\ r.entry # "ensure_models_loading" => ~r.ret
           /\ (r.pc = "returned"
                 /\ r.entry \in {"transcribe_audio_file", "summarize_text"})
                   => r.out = "unavailable"

\* after the failed load has ended, a summarize_text request that did not
\* time out is told the models are unavailable
C9_Witness ==
    /\ loader.raised /\ loader.pc = "done"
    /\ \E r \in Requests :
           /\ r.afterfail /\ r.pc = "returned" /\ r.finished
           /\ ~r.during
           /\ r.entry = "summarize_text" /\ r.out = "unavailable"

\* The threads are scheduled: the loader thread, once started, goes on to the
\* end of _load_models, and a request that can take a step takes one (a wait
\* ends when the event is set or the timeout elapses; the lock is free again
\* after finitely many steps of its holder).
LoaderStep ==
    \/ LoadWhisper \/ LoadTokenizer \/ LoadSummarizer
    \/ MarkLoaded \/ SetLoaded \/ MarkFailed \/ SetFailed \/ Finally

RequestStep ==
    \E r \in Requests :
        \/ Acquire(r) \/ CheckLoading(r) \/ CheckEvent(r) \/ SetLoading(r)
        \/ StartThread(r) \/ Release(r) \/ Wait(r) \/ WaitTimeout(r)
        \/ Result(r) \/ Use(r) \/ Return(r)

FairService == SpecService /\ WF_vars(LoaderStep) /\ WF_vars(RequestStep)

\* a request enters the module
Arrival == \E e \in Entries : Call(e)

\* C18: once the loader thread has left its try statement, by success or by
\* failure, the loaded event is set; and no request stays in the module for
\* ever: unless new requests keep entering, the module is eventually free of
\* requests (each has returned or raised).
C18_NoWaitForever ==
    /\ [](loader.pc \in {"finally", "done"} => svc.event)
    /\ ([]<>(thr = EmptyBag) \/ []<><<Arrival>>_vars)

\* a request that entered during the load and waited for the event has
\* returned after the loader failed and ended
C18_Witness ==
    /\ loader.pc = "done" /\ loader.raised /\ svc.event
    /\ \E r \in Requests :
           /\ r.entry = "wait_for_models" /\ r.during
           /\ r.finished /\ r.pc = "returned"

\* the summarizer's model and tokenizer are in place
Populated == svc._summarizer_model # NoValue /\ svc._summarizer_tokenizer # NoValue

\* the request's wait at line 111 has returned with the event set
SawEvent(r) == r.finished /\ r.pc \in {"result", "use", "returned"}

\* wait_for_models has returned True to the request
GotTrue(r) == r.entry # "ensure_models_loading" /\ r.pc \in {"use", "returned"} /\ r.ret

\* C30: wait_for_models returns True only if _load_models got through its try
\* block without an exception; a request that has seen the event set sees
\* the final _models_failed, and after a load that did not raise the
\* populated _summarizer_model and _summarizer_tokenizer, all written before
\* the event was set.
C30_TrueOnlyAfterLoad ==
    \A r \in Requests :
        /\ SawEvent(r) =>
               /\ svc.event /\ loader.pc \in {"finally", "done"}
               /\ svc._models_failed = loader.raised
               /\ ~loader.raised => Populated
        /\ GotTrue(r) => (SawEvent(r) /\ ~loader.raised /\ Populated)
        /\ (GotTrue(r) /\ r.entry = "summarize_text" /\ r.pc = "returned") =>
               r.out \in {"value", "failed"}

\* wait_for_models has returned True while the loader is in front of line 80
C30_Witness ==
    /\ loader.pc = "finally" /\ ~loader.raised
    /\ \E r \in Requests :
           r.entry = "wait_for_models" /\ r.pc = "returned" /\ r.ret

----------------------------------------------------------------------------
(* backend/app/utils/summarize.py                                          *)
(*                                                                         *)
(* lazy[k] is the module global k with the number of models constructed    *)
(* for it; lthr[t] is a thread inside _get_whisper or _get_summarizer.     *)

Caches == {"_whisper_model", "_summarizer_pipeline"}

Threads == 1..MaxThreads

IdleGetter == [pc |-> "idle", cache |-> "_whisper_model"]

InitLazy ==
    /\ lazy = [k \in Caches |-> [value |-> NoValue, loads |-> 0]]
    /\ lthr = [t \in Threads |-> IdleGetter]
    /\ text = Idle.text /\ nlp = Idle.nlp /\ calls = Idle.calls
    /\ stats = Idle.stats /\ today = Idle.today
    /\ svc = Idle.svc /\ thr = Idle.thr /\ loader = Idle.loader

\* a thread enters _get_whisper (k = "_whisper_model") or _get_summarizer
Get(t, k) ==
    /\ lthr[t].pc = "idle"
    /\ lthr' = [lthr EXCEPT ![t] = [pc |-> "check", cache |-> k]]
    /\ UNCHANGED <<lazy, text, nlp, calls, stats, today, svc, thr, loader>>

\* lines 27 and 39: if _whisper_model is None / if _summarizer_pipeline is None
CheckNone(t) ==
    /\ lthr[t].pc = "check"
    /\ lthr' = [lthr EXCEPT ![t].pc =
                   IF lazy[lthr[t].cache].value = NoValue THEN "construct" ELSE "return"]
    /\ UNCHANGED <<lazy, text, nlp, calls, stats, today, svc, thr, loader>>

\* lines 31 and 46-51, right-hand side: WhisperModel(...) / pipeline(...)
\* builds a model, or raises and the exception leaves the getter
Construct(t) ==
    /\ lthr[t].pc = "construct"
    /\ \/ /\ lazy' = [lazy EXCEPT ![lthr[t].cache].loads = @ + 1]
          /\ lthr' = [lthr EXCEPT ![t].pc = "assign"]
       \/ /\ lthr' = [lthr EXCEPT ![t] = IdleGetter]
          /\ UNCHANGED lazy
    /\ UNCHANGED <<text, nlp, calls, stats, today, svc, thr, loader>>

\* lines 31 and 46, the store into the global
Assign(t) ==
    /\ lthr[t].pc = "assign"
    /\ lazy' = [lazy EXCEPT ![lthr[t].cache].value = Model]
    /\ lthr' = [lthr EXCEPT ![t].pc = "return"]
    /\ UNCHANGED <<text, nlp, calls, stats, today, svc, thr, loader>>

\* lines 33 and 53: return the global
ReturnModel(t) ==
    /\ lthr[t].pc = "return"
    /\ lthr' = [lthr EXCEPT ![t] = IdleGetter]
    /\ UNCHANGED <<lazy, text, nlp, calls, stats, today, svc, thr, loader>>

NextLazy ==
    \/ \E t \in Threads : \E k \in Caches : Get(t, k)
    \/ \E t \in Threads : CheckNone(t)
    \/ \E t \in Threads : Construct(t)
    \/ \E t \in Threads : Assign(t)
    \/ \E t \in Threads : ReturnModel(t)

SpecLazy == InitLazy /\ [][NextLazy]_vars

\* C10: _get_whisper and _get_summarizer construct their model at most once,
\* whatever the interleaving of the threads that call them.
C10_LoadedOnce == \A k \in Caches : lazy[k].loads <= 1

----------------------------------------------------------------------------
(* api/app/services/nlp_service.py                                         *)
(*                                                                         *)
(* NLPProcessor.process_meeting hands the same content to summarize,       *)
(* extract_actions and redact_pii, in this order; an exception that leaves *)
(* one of them ends the pipeline.  calls holds one record per call made.   *)

DefaultMaxSentences == 5

PipelineTexts ==
    {"", " ", " \t\n", ExampleContact, ExampleAlice, ExampleRepeat,
     "Alice reviews the budget report now. We must ship version 2.5 of the planner today!"}

InitPipeline ==
    /\ text \in PipelineTexts
    /\ nlp \in Backends
    /\ calls = <<>>
    /\ stats = NoStats
    /\ today = Idle.today
    /\ svc = Idle.svc /\ thr = Idle.thr /\ loader = Idle.loader
    /\ lazy = Idle.lazy /\ lthr = Idle.lthr

\* the pipeline goes on: no call made so far has raised
Running == \A c \in 1..Len(calls) : ~calls[c].raised

\* line 31: summary = await self.summarizer.summarize(content)
ProcessSummarize ==
    /\ calls = <<>>
    /\ calls' = <<[op |-> "summarize", arg |-> text, raised |-> FALSE,
                   ret |-> summarize(nlp, text, DefaultMaxSentences)]>>
    /\ UNCHANGED <<text, nlp, stats, today, svc, thr, loader, lazy, lthr>>

\* line 32: action_items = await self.action_extractor.extract_actions(content)
ProcessExtractActions ==
    /\ Len(calls) = 1 /\ Running
    /\ calls' = Append(calls,
                   [op |-> "extract_actions", arg |-> text,
                    raised |-> extract_actions_raises(nlp, text),
                    ret |-> IF extract_actions_raises(nlp, text) THEN <<>>
                            ELSE extract_actions(nlp, text, today)])
    /\ UNCHANGED <<text, nlp, stats, today, svc, thr, loader, lazy, lthr>>

\* line 33: redacted_content = await self.pii_redactor.redact_pii(content)
ProcessRedactPii ==
    /\ Len(calls) = 2 /\ Running
    /\ calls' = Append(calls, [op |-> "redact_pii", arg |-> text, raised |-> FALSE,
                               ret |-> redact_pii(nlp, text)])
    /\ UNCHANGED <<text, nlp, stats, today, svc, thr, loader, lazy, lthr>>

NextPipeline == ProcessSummarize \/ ProcessExtractActions \/ ProcessRedactPii

SpecPipeline == InitPipeline /\ [][NextPipeline]_vars

Blank(s) == s = "" \/ strip(s) = ""

\* C11: when the backend raises during a call, no exception leaves summarize,
\* extract_actions or redact_pii; each returns its fallback or
\* pre-enhancement result.
C11_BackendFailureAbsorbed ==
    (nlp.loaded /\ nlp.raises) =>
        \A c \in 1..Len(calls) :
            /\ ~calls[c].raised
            /\ (calls[c].op = "summarize" /\ ~Blank(text)) =>
                   calls[c].ret = _simple_summarize(text, DefaultMaxSentences)
            /\ calls[c].op = "redact_pii" =>
                   calls[c].ret = PatternPhase(text, Len(pii_patterns))

\* the sentences the punctuation fallback of _split_sentences yields
PunctuationSentences(s) == StrippedLongerThan(PieceTexts(s, Terminators, TRUE), MinActionLen)

\* C12: with no model (nlp is None) every operation returns a value:
\* summarize the fallback summary, extract_actions the items of the
\* punctuation-split sentences, redact_pii exactly the pattern-phase output.
C12_NoModelDegrades ==
    ~nlp.loaded =>
        \A c \in 1..Len(calls) :
            /\ ~calls[c].raised
            /\ (calls[c].op = "summarize" /\ ~Blank(text)) =>
                   calls[c].ret = _simple_summarize(text, DefaultMaxSentences)
            /\ calls[c].op = "extract_actions" =>
                   calls[c].ret =
                       _deduplicate_actions(Candidates(PunctuationSentences(text), today))
            /\ calls[c].op = "redact_pii" =>
                   calls[c].ret = PatternPhase(text, Len(pii_patterns))

\* without a model the example is summarized by the fallback, has no action item and is redacted
C12_Witness ==
    /\ ~nlp.loaded
    /\ text = ExampleContact
    /\ Len(calls) = 3
    /\ calls[1].ret = "Contact me at alice@example."
    /\ calls[2].ret = <<>>
    /\ calls[3].ret = "Contact me at [EMAIL_REDACTED] or [PHONE_REDACTED]."

\* C13: for empty or whitespace-only text summarize returns "No content to
\* summarize", extract_actions returns the empty list and redact_pii returns
\* its input, whatever the backend.
C13_BlankInput ==
    Blank(text) =>
        \A c \in 1..Len(calls) :
            /\ ~calls[c].raised
            /\ calls[c].op = "summarize" => calls[c].ret = "No content to summarize"
            /\ calls[c].op = "extract_actions" => calls[c].ret = <<>>
            /\ calls[c].op = "redact_pii" => calls[c].ret = text

\* a whitespace-only text went through all three calls with a raising backend
C13_Witness ==
    /\ text = " \t\n"
    /\ nlp.loaded /\ nlp.raises
    /\ Len(calls) = 3
    /\ calls[3].ret = " \t\n"

----------------------------------------------------------------------------
(* Further properties of the redactor, under SpecRedact.                   *)

\* the entries of StatEntries that report under key k
EntriesOf(k) == { n \in 1..Len(StatEntries) : StatEntries[n].key = k }

\* the sum of the values of the mapping types
ValuesSum(types) ==
    LET first(n) == \A m \in 1..(n - 1) : StatEntries[m].key # StatEntries[n].key
        upto[n \in 0..Len(StatEntries)] ==
            IF n = 0 THEN 0
            ELSE upto[n - 1]
                 + (IF StatEntries[n].key \in DOMAIN types /\ first(n)
                    THEN types[StatEntries[n].key] ELSE 0)
    IN upto[Len(StatEntries)]

\* C14: total_redactions is the sum of the values of redaction_types, and
\* every key of redaction_types counts one placeholder kind only.
C14_StatsSum ==
    stats.call # 0 =>
        LET types == stats.val.redaction_types
            redacted == calls[stats.call].ret
        IN /\ stats.val.total_redactions = ValuesSum(types)
           /\ \A k \in DOMAIN types :
                  /\ Cardinality(EntriesOf(k)) = 1
                  /\ \A n \in EntriesOf(k) : types[k] = findall_len(StatEntries[n].re, redacted)

\* statistics over two pattern kinds and one entity kind
C14_Witness ==
    /\ stats.call # 0
    /\ stats.val.redaction_types = [k \in {"email", "phone", "person"} |-> 1]
    /\ stats.val.total_redactions = 3

\* the spans of the placeholder of the j-th pattern in s
PlaceholderSpans(j, s) ==
    LET spans == finditer(Lit(placeholder(upper(pii_patterns[j].type))), s)
    IN { spans[n] : n \in 1..Len(spans) }

\* the spans the k-th pattern matches in s
DetectorSpans(k, s) ==
    LET spans == finditer(pii_patterns[k].re, s)
    IN { spans[n] : n \in 1..Len(spans) }

Overlap(a, b) == a[1] < b[2] /\ b[1] < a[2]

\* <<s, the string after the first pattern, ..., after the n-th pattern>>
RECURSIVE PhaseTrace(_, _)
PhaseTrace(s, n) ==
    IF n = 0 THEN <<s>>
    ELSE LET before == PhaseTrace(s, n - 1)
         IN Append(before, sub(pii_patterns[n].re, placeholder(upper(pii_patterns[n].type)),
                               before[n]))

\* C23: in the pattern phase no detector matches text that overlaps a
\* placeholder of an earlier detector, and the placeholders a detector has
\* inserted are all there at the end of the phase.
C23_PlaceholdersSurvive ==
    \A c \in 1..Len(calls) :
        strip(calls[c].arg) # "" =>
            LET N == Len(pii_patterns)
                trace == PhaseTrace(calls[c].arg, N)
                after(k) == trace[k + 1]
            IN /\ after(N) = PatternPhase(calls[c].arg, N)
               /\ \A k \in 2..N :
                      LET matches == DetectorSpans(k, after(k - 1))
                      IN matches # {} =>
                             \A j \in 1..(k - 1) : \A p \in PlaceholderSpans(j, after(k - 1)) :
                                 \A m \in matches : ~Overlap(p, m)
               /\ \A j \in 1..N :
                      Cardinality(PlaceholderSpans(j, after(N)))
                        = Cardinality(PlaceholderSpans(j, after(j)))

\* the url detector matches right up to the placeholder of the e-mail detector
C23_Witness ==
    /\ text = ExampleLink
    /\ Len(calls) >= 1
    /\ ~nlp.loaded
    /\ calls[1].ret = "See [URL_REDACTED][EMAIL_REDACTED] now."

\* the substitutions redact_pii(b, s) performs: the matches each re.sub of
\* line 39 replaces, and the sensitive entities line 61 replaces
Substitutions(b, s) ==
    IF s = "" \/ strip(s) = "" THEN 0
    ELSE LET N == Len(pii_patterns)
             trace == PhaseTrace(s, N)
             by_pattern == [n \in 1..N |-> findall_len(pii_patterns[n].re, trace[n])]
             es == IF b.loaded /\ ~b.raises THEN ents(b, trace[N + 1]) ELSE <<>>
             replaced == { n \in 1..Len(es) : InSeq(es[n].label_, sensitive_entities) }
         IN SumOver(by_pattern, 1..N) + Cardinality(replaced)

\* C28: for r = redact_pii(o), get_redaction_stats(o, r).total_redactions is
\* the number of substitutions redact_pii performed to produce r, also when o
\* already holds text of the form [TYPE_REDACTED].
C28_TotalIsSubstitutions ==
    stats.call # 0 =>
        stats.val.total_redactions = Substitutions(nlp, calls[stats.call].arg)

----------------------------------------------------------------------------
(* The entity phase on its own: _redact_named_entities(text) with a model  *)
(* that reports several entities.  Here nlp.doc_ents is what doc.ents      *)
(* holds for the text: some of its words, front to back, each with a       *)
(* label.                                                                  *)

\* the most entities the model reports in one text
MaxEnts == 3

SpanLabels == {"PERSON", "GPE", "DATE"}

EntityTexts == {"Ann met Bob in Rome", "So Ann met Bob in Rome at noon."}

\* the entity lists over the words of s
EntityLists(s) ==
    LET w == WordSpans(s)
        nth(W, n) == CHOOSE i \in W : Cardinality({ j \in W : j < i }) = n - 1
    IN UNION { { [n \in 1..Cardinality(W) |->
                    [start_char |-> w[nth(W, n)][1] - 1, end_char |-> w[nth(W, n)][2] - 1,
                     label_ |-> f[nth(W, n)]]] : f \in [W -> SpanLabels] }
               : W \in { V \in SUBSET (1..Len(w)) : Cardinality(V) <= MaxEnts } }

InitEntities ==
    /\ text \in EntityTexts
    /\ \E es \in EntityLists(text) : nlp = [loaded |-> TRUE, raises |-> FALSE, doc_ents |-> es]
    /\ calls = <<>>
    /\ stats = Idle.stats
    /\ today = Idle.today
    /\ svc = Idle.svc /\ thr = Idle.thr /\ loader = Idle.loader
    /\ lazy = Idle.lazy /\ lthr = Idle.lthr

\* lines 49-63 with doc = self.nlp(text)
RedactNamedEntities ==
    /\ calls = <<>>
    /\ calls' = <<[arg |-> text, ret |-> ReplaceEntities(text, SortedDesc(nlp.doc_ents))]>>
    /\ UNCHANGED <<text, nlp, stats, today, svc, thr, loader, lazy, lthr>>

NextEntities == RedactNamedEntities

SpecEntities == InitEntities /\ [][NextEntities]_vars

\* s with the sensitive spans among es[n..] replaced at their offsets in s,
\* from offset `from` on: everything else is copied
RECURSIVE Simultaneous(_, _, _, _)
Simultaneous(s, es, n, from) ==
    IF n > Len(es) THEN Slice(s, from + 1, Len(s))
    ELSE IF InSeq(es[n].label_, sensitive_entities)
    THEN Slice(s, from + 1, es[n].start_char) \o placeholder(es[n].label_)
             \o Simultaneous(s, es, n + 1, es[n].end_char)
    ELSE Simultaneous(s, es, n + 1, from)

\* C24: for non-overlapping entity spans the back-to-front entity phase gives
\* the string in which the PERSON, ORG, GPE and LOC spans are replaced at their
\* original offsets and every other character, spans of other labels
\* included, is kept in place and order.
C24_BackToFront ==
    \A c \in 1..Len(calls) :
        calls[c].ret = Simultaneous(calls[c].arg, nlp.doc_ents, 1, 0)

\* three entities, the middle one with a label that is not sensitive
C24_Witness ==
    /\ Len(calls) = 1
    /\ text = "Ann met Bob in Rome"
    /\ Len(nlp.doc_ents) = 3
    /\ calls[1].ret = "[PERSON_REDACTED] met Bob in [GPE_REDACTED]"

----------------------------------------------------------------------------
(* Further properties of the extractor, under SpecActions.                 *)

\* the sentence an item was extracted from: id is its 1-based position
SourceSentence(item) == _split_sentences(nlp, text)[item.id]

\* the date patterns that match the sentence
MatchingDatePatterns(sentence) ==
    { n \in 1..Len(date_patterns) : search(date_patterns[n], sentence) # NoMatch }

\* YYYY-MM-DD
IsIsoDate(d) ==
    /\ Len(d) = 10
    /\ Ch(d, 5) = "-" /\ Ch(d, 8) = "-"
    /\ \A i \in {1, 2, 3, 4, 6, 7, 9, 10} : Ch(d, i) \in Digit

\* C15: whenever a due-date pattern matches the sentence of a returned item,
\* the item's due_date is not null: it is a YYYY-MM-DD date, or the trimmed
\* phrase the first matching pattern captured.
C15_DueDateKept ==
    \A c \in 1..Len(calls) : \A i \in 1..Len(calls[c].ret) :
        LET item == calls[c].ret[i]
            sentence == SourceSentence(item)
            matching == MatchingDatePatterns(sentence)
        IN matching # {} =>
               /\ item.due_date # NoValue
               /\ \/ IsIsoDate(item.due_date)
                  \/ item.due_date =
                         strip(group1(sentence, search(date_patterns[Min(matching)], sentence)))

\* an item whose due phrase is kept as written
C15_Witness ==
    /\ text = ExampleDue
    /\ Len(calls) >= 1
    /\ Len(calls[1].ret) = 1
    /\ calls[1].ret[1].due_date = "the end of sprint"

\* C16: the description of every returned item is trimmed and
\* whitespace-collapsed, does not start with a lowercase letter and ends with
\* '.', '!' or '?'.
C16_DescriptionClean ==
    \A c \in 1..Len(calls) : \A i \in 1..Len(calls[c].ret) :
        LET d == calls[c].ret[i].description
        IN /\ d # ""
           /\ \A j \in 1..Len(d) : Ch(d, j) \in Space => Ch(d, j) = " "
           /\ Ch(d, 1) # " " /\ Ch(d, Len(d)) # " "
           /\ ~Contains(d, "  ")
           /\ Ch(d, 1) \notin Lower
           /\ Ch(d, Len(d)) \in Terminators

\* a sentence that needed all three steps of the cleaning
C16_Witness ==
    /\ text = ExampleMessy
    /\ Len(calls) >= 1
    /\ Len(calls[1].ret) = 1
    /\ calls[1].ret[1].description = "We should review the budget."

\* one or two words, each beginning with an uppercase letter
CapitalizedWords(a) ==
    LET words == split(a)
    IN /\ Len(words) \in {1, 2}
       /\ \A n \in 1..Len(words) : Ch(words[n], 1) \in Upper

\* C19: an assigned_to taken from the "NAME will/shall/should" pattern (the
\* pattern in front of it does not match the sentence) is one or two words
\* that each begin with an uppercase letter; a lowercase word in front of
\* will/shall/should is never returned as the assignee.
C19_AssigneeCapitalized ==
    \A c \in 1..Len(calls) : \A i \in 1..Len(calls[c].ret) :
        LET item == calls[c].ret[i]
            sentence == SourceSentence(item)
        IN (/\ search(assignee_patterns[1], sentence) = NoMatch
            /\ search(assignee_patterns[2], sentence) # NoMatch)
               => /\ item.assigned_to # NoValue
                  /\ CapitalizedWords(item.assigned_to)

\* C22: every item returned by extract_actions comes from a sentence whose
\* trimmed length is greater than 10 characters, under the model-backed and
\* under the fallback segmentation.
C22_SentenceLongEnough ==
    \A c \in 1..Len(calls) : \A i \in 1..Len(calls[c].ret) :
        Len(strip(SourceSentence(calls[c].ret[i]))) > MinActionLen

\* C29: the returned list is a subsequence of the candidates in extraction
\* order and keeps the first candidate: ids strictly increase, each id is the
\* 1-based position of the item's sentence in the segmented sequence, and
\* every dropped candidate is similar (>= 0.7) to a kept item in front of it.
C29_KeptInOrder ==
    \A c \in 1..Len(calls) :
        ~calls[c].raised =>
            LET ret == calls[c].ret
                sentences == _split_sentences(nlp, calls[c].arg)
                hits == { h \in 1..Len(sentences) : _contains_action_keywords(sentences[h]) }
                kept == { ret[i].id : i \in 1..Len(ret) }
                description(h) == _clean_description(strip(sentences[h]))
            IN /\ kept \subseteq hits
               /\ \A i, j \in 1..Len(ret) : i < j => ret[i].id < ret[j].id
               /\ \A i \in 1..Len(ret) :
                      /\ ret[i].description = description(ret[i].id)
                      /\ ret[i].extracted_from = "Sentence " \o Str(ret[i].id)
               /\ hits # {} => (ret # <<>> /\ ret[1].id = Min(hits))
               /\ \A h \in hits \ kept :
                      \E k \in kept : k < h /\ _are_similar(description(h), description(k))

\* the third of three candidates was dropped for the first
C29_Witness ==
    /\ text = ExampleRepeat
    /\ Len(calls) = 2
    /\ ~calls[2].raised
    /\ Len(_split_sentences(nlp, text)) = 3
    /\ { calls[2].ret[i].id : i \in 1..Len(calls[2].ret) } = {1, 2}

----------------------------------------------------------------------------
(* backend/app/summarizer.py: PII detection before encryption.             *)

\* r'[\w\.-]+@[\w\.-]+'
detect_email_re ==
    Cat(<<AtLeast(Cls(WordChar \cup {".", "-"}), 1), Lit("@"),
          AtLeast(Cls(WordChar \cup {".", "-"}), 1)>>)

\* r"(?i)password\s*[:=]\s*\S+"
password_like_re ==
    Cat(<<Lit("password"), AtLeast(Cls(Space), 0), Cls({":", "="}),
          AtLeast(Cls(Space), 0), AtLeast(NCls(Space), 1)>>)

\* r'\b\d{3}-\d{2}-\d{4}\b'
detect_ssn_re ==
    Cat(<<WordB, Rep(Cls(Digit), 3, 3), Lit("-"), Rep(Cls(Digit), 2, 2), Lit("-"),
          Rep(Cls(Digit), 4, 4), WordB>>)

\* r'\b(?:\d[ -]*?){13,16}\b'
detect_credit_card_re ==
    Cat(<<WordB, Items(Cls(Digit), Cls({" ", "-"}), 13, 16), WordB>>)

\* r'\+?\d[\d\-() ]{7,}\d'
detect_phone_re ==
    Cat(<<Opt(Lit("+")), Cls(Digit), AtLeast(Cls(Digit \cup {"-", "(", ")", " "}), 7),
          Cls(Digit)>>)

\* PII_PATTERNS, in the order of the dict
PII_PATTERNS ==
    << [label |-> "email",         pattern |-> detect_email_re],
       [label |-> "password_like", pattern |-> password_like_re],
       [label |-> "ssn",           pattern |-> detect_ssn_re],
       [label |-> "credit_card",   pattern |-> detect_credit_card_re],
       [label |-> "phone",         pattern |-> detect_phone_re] >>

\* the matches of one pattern, as detect_pii appends them
MatchesOf(p, s) ==
    LET spans == finditer(p.pattern, s)
    IN [n \in 1..Len(spans) |->
          [label |-> p.label, start |-> spans[n][1], end |-> spans[n][2],
           text |-> Slice(s, spans[n][1] + 1, spans[n][2])]]

\* detect_pii(text): the matches of every pattern, pattern after pattern
RECURSIVE DetectFrom(_, _)
DetectFrom(n, s) ==
    IF n > Len(PII_PATTERNS) THEN <<>>
    ELSE MatchesOf(PII_PATTERNS[n], s) \o DetectFrom(n + 1, s)

detect_pii(s) == DetectFrom(1, s)

\* sorted(matches, key=lambda x: x['start']): stable
RECURSIVE SortedByStart(_)
SortedByStart(ms) ==
    IF ms = <<>> THEN <<>>
    ELSE LET m == CHOOSE i \in 1..Len(ms) :
                      /\ \A j \in 1..Len(ms) : ms[i].start <= ms[j].start
                      /\ \A j \in 1..(i - 1) : ms[i].start < ms[j].start
         IN <<ms[m]>> \o SortedByStart(SubSeq(ms, 1, m - 1) \o SubSeq(ms, m + 1, Len(ms)))

\* str(n) for 0 <= n <= 99
Decimal(n) ==
    LET digit(d) == Ch("0123456789", d + 1)
    IN IF n < 10 THEN digit(n) ELSE digit(n \div 10) \o digit(n % 10)

\* text[a:b] for 0 <= a, b <= len(text): empty when b <= a
PySlice(s, a, b) == IF b <= a THEN "" ELSE Slice(s, a + 1, b)

\* the loop of lines 54-60 over the first n matches: the list out, the tokens
\* of mapping in insertion order, and last
RECURSIVE EncryptLoop(_, _, _)
EncryptLoop(s, ms, n) ==
    IF n = 0 THEN [out |-> <<>>, mapping |-> <<>>, last |-> 0]
    ELSE LET before == EncryptLoop(s, ms, n - 1)
             m == ms[n]
             token == "[PII:" \o m.label \o ":" \o Decimal(Len(before.mapping)) \o "]"
         IN [out |-> before.out \o <<PySlice(s, before.last, m.start), token>>,
             mapping |-> Append(before.mapping,
                                [token |-> token, label |-> m.label, plain |-> m.text]),
             last |-> m.end]

\* the list out when line 62 joins it
EncryptOut(s) ==
    LET matches == SortedByStart(detect_pii(s))
        loop == EncryptLoop(s, matches, Len(matches))
    IN Append(loop.out, PySlice(s, loop.last, Len(s)))

\* encrypt_pii_in_text(text) with the module's fernet (a key is configured or
\* not); a mapping entry holds the plain text its ciphertext decrypts to
encrypt_pii_in_text(fernet, s) ==
    IF ~fernet THEN [text |-> s, mapping |-> <<>>]
    ELSE LET matches == SortedByStart(detect_pii(s))
         IN [text |-> join("", EncryptOut(s)),
             mapping |-> EncryptLoop(s, matches, Len(matches)).mapping]

(* Transcripts put together from fragments that carry one kind of PII each. *)
DetectFragments ==
    { "123-45-6789", "a@b.co", " ", "Password: x1", "4111 1111 1111 1111",
      "+1 (555) 123-4567", "call" }

\* an e-mail address inside the value of a password assignment
ExampleNested == "password=a@b.co,x"

DetectTexts == TextsOf(DetectFragments, MaxFrags) \cup {ExampleNested}

\* svc.fernet: PII_ENCRYPTION_KEY was set when the module was imported
InitDetect ==
    /\ text \in DetectTexts
    /\ nlp = Idle.nlp
    /\ calls = <<>>
    /\ stats = Idle.stats
    /\ today = Idle.today
    /\ svc \in [fernet : BOOLEAN]
    /\ thr = Idle.thr
    /\ loader = Idle.loader
    /\ lazy = Idle.lazy
    /\ lthr = Idle.lthr

Called(op) == \E c \in 1..Len(calls) : calls[c].op = op

\* one detection pass over the transcript
DetectPii ==
    /\ ~Called("detect_pii")
    /\ calls' = Append(calls, [op |-> "detect_pii", arg |-> text, ret |-> detect_pii(text)])
    /\ UNCHANGED <<text, nlp, stats, today, svc, thr, loader, lazy, lthr>>

\* encrypt_pii_in_text(text); out is the list the result is joined from
EncryptPiiInText ==
    /\ ~Called("encrypt_pii_in_text")
    /\ calls' = Append(calls, [op |-> "encrypt_pii_in_text", arg |-> text,
                               out |-> IF svc.fernet THEN EncryptOut(text) ELSE <<text>>,
                               ret |-> encrypt_pii_in_text(svc.fernet, text)])
    /\ UNCHANGED <<text, nlp, stats, today, svc, thr, loader, lazy, lthr>>

NextDetect == DetectPii \/ EncryptPiiInText

SpecDetect == InitDetect /\ [][NextDetect]_vars

\* C17: the matches of one detection pass do not overlap: of any two distinct
\* matches of the list, one ends at or before the other starts.
C17_NoOverlap ==
    \A c \in 1..Len(calls) :
        calls[c].op = "detect_pii" =>
            \A m, n \in 1..Len(calls[c].ret) :
                m # n =>
                    \/ calls[c].ret[m].end <= calls[c].ret[n].start
                    \/ calls[c].ret[n].end <= calls[c].ret[m].start

\* the characters of s at the offsets of the set keep, in order
RECURSIVE Kept(_, _, _)
Kept(s, keep, from) ==
    IF { i \in keep : i >= from } = {} THEN ""
    ELSE LET a == Min({ i \in keep : i >= from })
             stop == { i \in a..Len(s) : i \notin keep }
             b == IF stop = {} THEN Len(s) + 1 ELSE Min(stop)
         IN PySlice(s, a, b) \o Kept(s, keep, b)

\* the offsets of s that lie in no span of detect_pii(s)
OutsideSpans(s) ==
    { i \in 0..(Len(s) - 1) :
        \A n \in 1..Len(detect_pii(s)) :
            i < detect_pii(s)[n].start \/ i >= detect_pii(s)[n].end }

\* the pieces of the transcript in out: every other element, from the first
CopiedText(out) == join("", [n \in 1..((Len(out) + 1) \div 2) |-> out[2 * n - 1]])

\* C25: with a key configured, the text encrypt_pii_in_text copies from its
\* input is exactly the characters outside every detected span, once each and
\* in order, also when spans overlap or nest.
C25_OnlyOutsideCopied ==
    \A c \in 1..Len(calls) :
        (calls[c].op = "encrypt_pii_in_text" /\ svc.fernet) =>
            CopiedText(calls[c].out) = Kept(calls[c].arg, OutsideSpans(calls[c].arg), 0)


(***************************************************************************)
(* api/v1/endpoints/upload.py and services/nlp_service.py: an upload      *)
(* creates a meeting record and processes it before it answers.  svc is   *)
(* the db.meetings collection, a sequence of documents whose _id is the   *)
(* position; thr is the handler.  Database writes succeed.                *)
(***************************************************************************)
MaxUploads == 1

\* upload.py line 18
ALLOWED_EXTENSIONS == {".mp3", ".wav", ".m4a", ".txt", ".docx"}

Extensions == ALLOWED_EXTENSIONS \cup {".exe"}

\* nlp_service.py line 62: the transcript of an audio file
AudioPlaceholder ==
    "This is a placeholder transcript for audio file processing. Implement speech-to-text integration here."

UploadTexts == {"", ExampleContact, ExampleAlice}

NoHandler ==
    [pc |-> "idle", entry |-> "none", file_type |-> "none", meeting |-> 0,
     content |-> "", status_code |-> 0]

InitUpload ==
    /\ text \in UploadTexts
    /\ nlp \in Backends
    /\ calls = <<>>
    /\ stats = NoStats
    /\ today = 1
    /\ svc = <<>>
    /\ thr = NoHandler
    /\ loader = Idle
    /\ lazy = Idle
    /\ lthr = Idle

\* the document of the handler's meeting after update_one({"_id": oid}, {"$set": fields})
SetStatus(status) ==
    [svc EXCEPT ![thr.meeting].status = status]

\* upload.py lines 27-53: the extension check and the save of the file
UploadFile ==
    /\ thr.pc = "idle" /\ Len(svc) < MaxUploads
    /\ \E ext \in Extensions : \E saved \in BOOLEAN :
         thr' = IF ext \notin ALLOWED_EXTENSIONS
                    THEN [NoHandler EXCEPT !.pc = "done", !.entry = "upload_file",
                                           !.status_code = 400]
                ELSE IF ~saved
                    THEN [NoHandler EXCEPT !.pc = "done", !.entry = "upload_file",
                                           !.status_code = 500]
                ELSE [NoHandler EXCEPT !.pc = "insert", !.entry = "upload_file",
                                       !.file_type = IF ext \in {".txt", ".docx"}
                                                         THEN "text" ELSE "audio"]
    /\ UNCHANGED <<text, nlp, calls, stats, today, svc, loader, lazy, lthr>>

\* upload.py lines 91-108: the content is written to a new file
UploadText ==
    /\ thr.pc = "idle" /\ Len(svc) < MaxUploads
    /\ \E saved \in BOOLEAN :
         thr' = IF ~saved
                    THEN [NoHandler EXCEPT !.pc = "done", !.entry = "upload_text",
                                           !.status_code = 500]
                ELSE [NoHandler EXCEPT !.pc = "insert", !.entry = "upload_text",
                                       !.file_type = "text"]
    /\ UNCHANGED <<text, nlp, calls, stats, today, svc, loader, lazy, lthr>>

\* upload.py lines 56-71 and 111-126: insert_one of the document with status "pending"
InsertMeeting ==
    /\ thr.pc = "insert"
    /\ svc' = Append(svc, [status |-> "pending",
                           transcript |-> IF thr.entry = "upload_text" THEN text
                                          ELSE NoValue,
                           results |-> <<>>])
    /\ thr' = [thr EXCEPT !.pc = "processing", !.meeting = Len(svc) + 1]
    /\ UNCHANGED <<text, nlp, calls, stats, today, loader, lazy, lthr>>

\* nlp_service.py line 25: status "processing"
SetProcessing ==
    /\ thr.pc = "processing"
    /\ svc' = SetStatus("processing")
    /\ thr' = [thr EXCEPT !.pc = "read"]
    /\ UNCHANGED <<text, nlp, calls, stats, today, loader, lazy, lthr>>

\* nlp_service.py lines 28 and 54-66: a text file is read as UTF-8, which
\* raises when the file cannot be opened or decoded; an audio file yields
\* the placeholder
ReadFileContent ==
    /\ thr.pc = "read"
    /\ \E readable \in BOOLEAN :
         thr' = IF thr.file_type = "audio"
                    THEN [thr EXCEPT !.pc = "summarize", !.content = AudioPlaceholder]
                ELSE IF readable
                    THEN [thr EXCEPT !.pc = "summarize", !.content = text]
                ELSE [thr EXCEPT !.pc = "except"]
    /\ UNCHANGED <<text, nlp, calls, stats, today, svc, loader, lazy, lthr>>

\* nlp_service.py line 31
MeetingSummarize ==
    /\ thr.pc = "summarize"
    /\ calls' = Append(calls, [op |-> "summarize", arg |-> thr.content, raised |-> FALSE,
                               ret |-> summarize(nlp, thr.content, DefaultMaxSentences)])
    /\ thr' = [thr EXCEPT !.pc = "extract"]
    /\ UNCHANGED <<text, nlp, stats, today, svc, loader, lazy, lthr>>

\* nlp_service.py line 32
MeetingExtractActions ==
    /\ thr.pc = "extract"
    /\ calls' = Append(calls,
                   [op |-> "extract_actions", arg |-> thr.content,
                    raised |-> extract_actions_raises(nlp, thr.content),
                    ret |-> IF extract_actions_raises(nlp, thr.content) THEN <<>>
                            ELSE extract_actions(nlp, thr.content, today)])
    /\ thr' = [thr EXCEPT !.pc = IF extract_actions_raises(nlp, thr.content)
                                     THEN "except" ELSE "redact"]
    /\ UNCHANGED <<text, nlp, stats, today, svc, loader, lazy, lthr>>

\* nlp_service.py line 33
MeetingRedactPii ==
    /\ thr.pc = "redact"
    /\ calls' = Append(calls, [op |-> "redact_pii", arg |-> thr.content, raised |-> FALSE,
                               ret |-> redact_pii(nlp, thr.content)])
    /\ thr' = [thr EXCEPT !.pc = "store"]
    /\ UNCHANGED <<text, nlp, stats, today, svc, loader, lazy, lthr>>

\* the document after the update of nlp_service.py lines 36-48, without its status
ResultsStoredOnly ==
    [svc EXCEPT ![thr.meeting].transcript = thr.content,
                ![thr.meeting].results =
                    <<[summary |-> calls[Len(calls) - 2].ret,
                       action_items |-> calls[Len(calls) - 1].ret,
                       redacted_content |-> calls[Len(calls)].ret]>>]

\* nlp_service.py lines 36-48: one update_one stores the results and "completed"
ResultsStored ==
    [ResultsStoredOnly EXCEPT ![thr.meeting].status = "completed"]

StoreResults ==
    /\ thr.pc = "store"
    /\ svc' = ResultsStored
    /\ thr' = [thr EXCEPT !.pc = "respond"]
    /\ UNCHANGED <<text, nlp, calls, stats, today, loader, lazy, lthr>>

\* nlp_service.py lines 49-52: status "failed", and the exception is raised again
ProcessExcept ==
    /\ thr.pc = "except"
    /\ svc' = SetStatus("failed")
    /\ thr' = [thr EXCEPT !.pc = "handler_except"]
    /\ UNCHANGED <<text, nlp, calls, stats, today, loader, lazy, lthr>>

\* upload.py lines 76-82 and 130-135: status "failed" and HTTP 500
HandlerExcept ==
    /\ thr.pc = "handler_except"
    /\ svc' = SetStatus("failed")
    /\ thr' = [thr EXCEPT !.pc = "done", !.status_code = 500]
    /\ UNCHANGED <<text, nlp, calls, stats, today, loader, lazy, lthr>>

\* upload.py lines 84-88 and 137-141: the response
Respond ==
    /\ thr.pc = "respond"
    /\ thr' = [thr EXCEPT !.pc = "done", !.status_code = 200]
    /\ UNCHANGED <<text, nlp, calls, stats, today, svc, loader, lazy, lthr>>

\* the next request arrives once the handler has answered
NextRequest ==
    /\ thr.pc = "done" /\ Len(svc) < MaxUploads
    /\ thr' = NoHandler
    /\ calls' = <<>>
    /\ UNCHANGED <<text, nlp, stats, today, svc, loader, lazy, lthr>>

NextUpload ==
    \/ UploadFile \/ UploadText \/ InsertMeeting \/ SetProcessing \/ ReadFileContent
    \/ MeetingSummarize \/ MeetingExtractActions \/ MeetingRedactPii \/ StoreResults
    \/ ProcessExcept \/ HandlerExcept \/ Respond \/ NextRequest

SpecUpload == InitUpload /\ [][NextUpload]_vars

StatusMoves ==
    {<<"pending", "processing">>, <<"processing", "completed">>,
     <<"processing", "failed">>}

\* the handler has answered for a record it created
Finished == thr.pc = "done" /\ thr.meeting # 0

Settled(doc) ==
    \/ /\ doc.status = "completed"
       /\ Len(doc.results) = 1
       /\ doc.results[1].summary = summarize(nlp, doc.transcript, DefaultMaxSentences)
       /\ doc.results[1].redacted_content = redact_pii(nlp, doc.transcript)
    \/ doc.status = "failed"

\* C27: with database writes succeeding, an upload that created a meeting
\* record leaves it, when the handler finishes, "completed" with summary,
\* action_items and redacted_content stored, or "failed"; never "pending" or
\* "processing"; and the status of a record only moves pending ->
\* processing -> completed or failed.
C27_UploadSettles ==
    /\ [](Finished => Settled(svc[thr.meeting]))
    /\ [][\A m \in 1..Len(svc) :
              svc'[m].status # svc[m].status =>
                  <<svc[m].status, svc'[m].status>> \in StatusMoves]_vars

\* an upload whose extraction raised has answered 500 and left its record "failed"
C27_Witness ==
    /\ Finished /\ thr.status_code = 500
    /\ svc[thr.meeting].status = "failed"
    /\ Len(calls) = 2 /\ calls[2].raised

====
